---------------------------- MODULE Spec2Model ----------------------------
(***************************************************************************)
(* Relay: a TCP message relay.  This module models the frame codec         *)
(* (packages/protocol), the Connection state machine and its registry      *)
(* (packages/transport) and the server's dispatch (apps/server).           *)
(*                                                                         *)
(* Buffers are run-length encoded byte sequences: a Buffer is a sequence   *)
(* of runs <<byte, count>>, count >= 1, with no two adjacent runs of the   *)
(* same byte, so that a buffer of several megabytes is one short value.    *)
(* JavaScript strings are sequences of character codes (ASCII only, so the *)
(* UTF-8 encoding of a string is the string itself).                       *)
(***************************************************************************)
EXTENDS Integers, Sequences, FiniteSets, TLC

(***************************************************************************)
(* Bounds of the model                                                     *)
(***************************************************************************)
\* connections the registry creates in one run (ids conn-1 .. conn-MaxConns)
MaxConns == 2
\* writes the peers make, over all connections, in one run
MaxPeerWrites == 1
\* public send() calls the application makes in one run
MaxCalls == 1

(***************************************************************************)
(* Protocol constants                                                      *)
(***************************************************************************)
PROTOCOL_VERSION == 1
HEADER_SIZE == 7
MAX_FRAME_SIZE == 10485760
HELLO == 1
JOIN_ROOM == 2
LEAVE_ROOM == 3
MESSAGE == 4
HEARTBEAT == 5
ERROR == 6
FLAG_UTF8_JSON == 1
FLAG_BINARY == 2

\* flags & mask, for a one-bit mask
HasFlag(flags, mask) == (flags \div mask) % 2 = 1
\* flags | mask, for a one-bit mask
OrFlag(flags, mask) == IF HasFlag(flags, mask) THEN flags ELSE flags + mask

(***************************************************************************)
(* Node Buffer operations on run-length encoded buffers                    *)
(***************************************************************************)
EmptyBuffer == <<>>

RECURSIVE RunBytes(_, _, _)
\* the bytes held by runs lo..hi of b
RunBytes(b, lo, hi) ==
    IF lo > hi THEN 0
    ELSE IF lo = hi THEN b[lo][2]
    ELSE LET mid == (lo + hi) \div 2
         IN  RunBytes(b, lo, mid) + RunBytes(b, mid + 1, hi)

\* Buffer.length
BLen(b) == RunBytes(b, 1, Len(b))

\* Buffer.concat([a, b]): the runs that meet are merged when of the same byte
BufferConcat(a, b) ==
    IF a = <<>> THEN b
    ELSE IF b = <<>> THEN a
    ELSE IF a[Len(a)][1] = b[1][1]
         THEN SubSeq(a, 1, Len(a) - 1)
              \o << <<b[1][1], a[Len(a)][2] + b[1][2]>> >> \o Tail(b)
         ELSE a \o b

RECURSIVE RunsOf(_, _, _)
\* the runs of the characters lo..hi of s
RunsOf(s, lo, hi) ==
    IF lo > hi THEN <<>>
    ELSE IF lo = hi THEN << <<s[lo], 1>> >>
    ELSE LET mid == (lo + hi) \div 2
         IN  BufferConcat(RunsOf(s, lo, mid), RunsOf(s, mid + 1, hi))

\* Buffer.from(string, "utf8") for an ASCII string
BufferFrom(s) == RunsOf(s, 1, Len(s))

\* how many whole runs of b lie within its first k bytes
WholeRuns(b, k) ==
    CHOOSE m \in 0..Len(b) :
        /\ RunBytes(b, 1, m) <= k
        /\ m < Len(b) => RunBytes(b, 1, m + 1) > k

\* the first k bytes of b
BTake(b, k) ==
    IF k <= 0 THEN <<>>
    ELSE LET m == WholeRuns(b, k)
             rest == k - RunBytes(b, 1, m)
         IN  IF m < Len(b) /\ rest > 0
             THEN SubSeq(b, 1, m) \o << <<b[m + 1][1], rest>> >>
             ELSE SubSeq(b, 1, m)

\* b without its first k bytes
BDrop(b, k) ==
    IF k <= 0 THEN b
    ELSE LET m == WholeRuns(b, k)
             rest == k - RunBytes(b, 1, m)
         IN  IF m < Len(b) /\ rest > 0
             THEN << <<b[m + 1][1], b[m + 1][2] - rest>> >> \o SubSeq(b, m + 2, Len(b))
             ELSE SubSeq(b, m + 1, Len(b))

\* Buffer.subarray(start, end): indices clamped to the buffer
subarray(b, start, end) == BTake(BDrop(b, start), end - start)

\* the byte at 0-based offset i, for i < BLen(b)
BAt(b, i) == b[WholeRuns(b, i) + 1][1]

\* Buffer.readUInt32BE(0), for BLen(b) >= 4
readUInt32BE(b) ==
    BAt(b, 0) * 16777216 + BAt(b, 1) * 65536 + BAt(b, 2) * 256 + BAt(b, 3)

\* the four bytes Buffer.writeUInt32BE(n) writes
writeUInt32BE(n) ==
    << (n \div 16777216) % 256, (n \div 65536) % 256, (n \div 256) % 256, n % 256 >>

(***************************************************************************)
(* JavaScript values and JSON                                              *)
(*                                                                         *)
(* A value is a record [t, n, s, o]: t names the type, n holds a number,   *)
(* s a string or the bytes of a Buffer, o the properties of an object in   *)
(* insertion order, each a pair <<key, value>>.                            *)
(***************************************************************************)
JUndefined == [t |-> "undefined", n |-> 0, s |-> <<>>, o |-> <<>>]
JNull == [t |-> "null", n |-> 0, s |-> <<>>, o |-> <<>>]
JNum(k) == [t |-> "number", n |-> k, s |-> <<>>, o |-> <<>>]
JStr(str) == [t |-> "string", n |-> 0, s |-> str, o |-> <<>>]
JObj(pairs) == [t |-> "object", n |-> 0, s |-> <<>>, o |-> pairs]
\* a Buffer instance holding the bytes b
JBuf(b) == [t |-> "buffer", n |-> 0, s |-> b, o |-> <<>>]
\* a value JSON.stringify throws on (a BigInt)
JBigInt == [t |-> "bigint", n |-> 0, s |-> <<>>, o |-> <<>>]

\* "null"
S_null ==
    <<110, 117, 108, 108>>
\* "error"
S_error ==
    <<101, 114, 114, 111, 114>>
\* "Unknown message type: "
S_UnknownMessageType ==
    <<85, 110, 107, 110, 111, 119, 110, 32, 109, 101, 115, 115, 97, 103, 101, 32,
      116, 121, 112, 101, 58, 32>>
\* "Internal server error"
S_InternalServerError ==
    <<73, 110, 116, 101, 114, 110, 97, 108, 32, 115, 101, 114, 118, 101, 114, 32,
      101, 114, 114, 111, 114>>
\* "status"
S_status ==
    <<115, 116, 97, 116, 117, 115>>
\* "connected"
S_connected ==
    <<99, 111, 110, 110, 101, 99, 116, 101, 100>>
\* "connectionId"
S_connectionId ==
    <<99, 111, 110, 110, 101, 99, 116, 105, 111, 110, 73, 100>>
\* "conn-"
S_connPrefix ==
    <<99, 111, 110, 110, 45>>
\* "serverVersion"
S_serverVersion ==
    <<115, 101, 114, 118, 101, 114, 86, 101, 114, 115, 105, 111, 110>>
\* "1.0.0"
S_1_0_0 ==
    <<49, 46, 48, 46, 48>>

\* "room"
S_room ==
    <<114, 111, 111, 109>>
\* "content"
S_content ==
    <<99, 111, 110, 116, 101, 110, 116>>
\* "type"
S_type ==
    <<116, 121, 112, 101>>
\* "userJoined"
S_userJoined ==
    <<117, 115, 101, 114, 74, 111, 105, 110, 101, 100>>
\* "userLeft"
S_userLeft ==
    <<117, 115, 101, 114, 76, 101, 102, 116>>
\* "from"
S_from ==
    <<102, 114, 111, 109>>
\* "timestamp"
S_timestamp ==
    <<116, 105, 109, 101, 115, 116, 97, 109, 112>>
\* "joined"
S_joined ==
    <<106, 111, 105, 110, 101, 100>>
\* "left"
S_left ==
    <<108, 101, 102, 116>>
\* "Invalid room name"
S_InvalidRoomName ==
    <<73, 110, 118, 97, 108, 105, 100, 32, 114, 111, 111, 109, 32, 110, 97,
      109, 101>>
\* "Room name must be 1-64 characters"
S_RoomNameLength ==
    <<82, 111, 111, 109, 32, 110, 97, 109, 101, 32, 109, 117, 115, 116, 32,
      98, 101, 32, 49, 45, 54, 52, 32, 99, 104, 97, 114, 97, 99, 116, 101,
      114, 115>>
\* "Room name required"
S_RoomNameRequired ==
    <<82, 111, 111, 109, 32, 110, 97, 109, 101, 32, 114, 101, 113, 117, 105,
      114, 101, 100>>
\* "Message content required"
S_MessageContentRequired ==
    <<77, 101, 115, 115, 97, 103, 101, 32, 99, 111, 110, 116, 101, 110, 116,
      32, 114, 101, 113, 117, 105, 114, 101, 100>>
\* "Room '"
S_RoomOpen ==
    <<82, 111, 111, 109, 32, 39>>
\* "' does not exist"
S_DoesNotExist ==
    <<39, 32, 100, 111, 101, 115, 32, 110, 111, 116, 32, 101, 120, 105, 115,
      116>>
\* "You are not in room '"
S_NotInRoom ==
    <<89, 111, 117, 32, 97, 114, 101, 32, 110, 111, 116, 32, 105, 110, 32,
      114, 111, 111, 109, 32, 39>>
\* "'"
S_Apostrophe ==
    <<39>>

RECURSIVE DecStr(_)
\* String(n) for a non-negative integer
DecStr(n) == IF n < 10 THEN <<48 + n>> ELSE DecStr(n \div 10) \o <<48 + (n % 10)>>

RECURSIVE Escaped(_)
\* the characters of s with '"' and '\' escaped, as JSON.stringify writes them
Escaped(s) ==
    IF s = <<>> THEN <<>>
    ELSE (IF s[1] \in {34, 92} THEN <<92, s[1]>> ELSE <<s[1]>>) \o Escaped(Tail(s))

\* JSON.stringify of a string without control characters
Quote(s) == <<34>> \o Escaped(s) \o <<34>>

RECURSIVE Serializable(_)
\* JSON.stringify(v) returns without throwing
Serializable(v) ==
    /\ v.t # "bigint"
    /\ \A i \in 1..Len(v.o) : Serializable(v.o[i][2])

RECURSIVE JSONstringify(_)
RECURSIVE StringifyPairs(_, _)
\* the properties of an object, comma separated; undefined ones are left out
StringifyPairs(pairs, first) ==
    IF pairs = <<>> THEN <<>>
    ELSE IF pairs[1][2].t = "undefined" THEN StringifyPairs(Tail(pairs), first)
         ELSE (IF first THEN <<>> ELSE <<44>>)
              \o Quote(pairs[1][1]) \o <<58>> \o JSONstringify(pairs[1][2])
              \o StringifyPairs(Tail(pairs), FALSE)

\* JSON.stringify(v) for a serializable value that is not undefined
JSONstringify(v) ==
    CASE v.t = "null" -> S_null
      [] v.t = "number" -> DecStr(v.n)
      [] v.t = "string" -> Quote(v.s)
      [] v.t = "object" -> <<123>> \o StringifyPairs(v.o, TRUE) \o <<125>>

\* the room names of the model: "r" and "q"
RoomR == <<114>>
RoomQ == <<113>>
\* " ", which trim() turns into the empty string
RoomBlank == <<32>>
\* a name of 65 characters
RoomLong == [i \in 1..65 |-> 97]

\* the JSON documents a peer sends in this model: {}, 1, {"room": name} and
\* {"room": "r", "content": 1}
JsonInputs ==
    {JObj(<<>>), JNum(1)}
    \cup {JObj(<< <<S_room, JStr(n)>> >>) : n \in {RoomR, RoomBlank, RoomLong}}
    \cup {JObj(<< <<S_room, JStr(RoomR)>>, <<S_content, JNum(1)>> >>)}

\* the text of each document of JsonInputs
JsonTexts == [v \in JsonInputs |-> BufferFrom(JSONstringify(v))]

\* JSON.parse(buffer.toString("utf8")): [ok, value], ok = FALSE for a
\* SyntaxError.  The payloads of the model are the canonical texts of
\* JsonInputs or are not JSON at all.
JSONparse(b) ==
    IF \E v \in JsonInputs : JsonTexts[v] = b
    THEN [ok |-> TRUE, value |-> CHOOSE v \in JsonInputs : JsonTexts[v] = b]
    ELSE [ok |-> FALSE, value |-> JNull]

\* value.key of a non-null value (undefined when absent)
GetProp(v, key) ==
    IF \E i \in 1..Len(v.o) : v.o[i][1] = key
    THEN v.o[CHOOSE i \in 1..Len(v.o) : v.o[i][1] = key][2]
    ELSE JUndefined

\* !v: the value is falsy
Falsy(v) ==
    \/ v.t \in {"undefined", "null"}
    \/ v.t = "string" /\ v.s = <<>>
    \/ v.t = "number" /\ v.n = 0

\* the characters String.prototype.trim strips, among those of the model
WhiteSpace == {9, 10, 11, 12, 13, 32}

\* s.trim()
trim(s) ==
    LET kept == {i \in 1..Len(s) : s[i] \notin WhiteSpace}
    IN  IF kept = {} THEN <<>>
        ELSE SubSeq(s, CHOOSE i \in kept : \A j \in kept : i <= j,
                       CHOOSE i \in kept : \A j \in kept : i >= j)

(***************************************************************************)
(* Frame codec                                                             *)
(***************************************************************************)
\* the flags argument of encodeFrame when the caller passes none
NoFlags == -1

\* encodeFrame(type, payload, flags): [threw, buffer]
encodeFrame(type, payload, flags) ==
    LET given == IF flags = NoFlags THEN 0 ELSE flags
        payloadBuffer ==
            IF payload.t \in {"undefined", "null"} THEN EmptyBuffer
            ELSE IF payload.t = "buffer" THEN payload.s
            ELSE BufferFrom(JSONstringify(payload))
        computedFlags ==
            IF payload.t \in {"undefined", "null"} THEN given
            ELSE IF payload.t = "buffer" THEN OrFlag(given, FLAG_BINARY)
            ELSE OrFlag(given, FLAG_UTF8_JSON)
        totalLength == HEADER_SIZE - 4 + BLen(payloadBuffer)
    IN  IF payload.t \notin {"undefined", "null", "buffer"} /\ ~Serializable(payload)
        THEN [threw |-> TRUE, buffer |-> EmptyBuffer]
        ELSE [threw |-> FALSE,
              buffer |-> BufferConcat(
                  BufferFrom(writeUInt32BE(totalLength)
                             \o <<PROTOCOL_VERSION, type, computedFlags>>),
                  payloadBuffer)]

\* extractFrame that does not wait for the payload: it takes what has come
extractFrameEarly(buffer) ==
    IF BLen(buffer) < HEADER_SIZE
    THEN [status |-> "null",
          frame |-> [length |-> 0, version |-> 0, type |-> 0, flags |-> 0,
                     payload |-> EmptyBuffer],
          remaining |-> buffer]
    ELSE [status |-> "frame",
          frame |-> [length |-> readUInt32BE(buffer), version |-> BAt(buffer, 4),
                     type |-> BAt(buffer, 5), flags |-> BAt(buffer, 6),
                     payload |-> subarray(buffer, 7, BLen(buffer))],
          remaining |-> EmptyBuffer]

\* extractFrame that leaves nothing behind the frame
extractFrameDroppingRest(buffer) ==
    IF BLen(buffer) < 4 \/ BLen(buffer) < 4 + readUInt32BE(buffer)
    THEN [status |-> "null",
          frame |-> [length |-> 0, version |-> 0, type |-> 0, flags |-> 0,
                     payload |-> EmptyBuffer],
          remaining |-> buffer]
    ELSE [status |-> "frame",
          frame |-> [length |-> readUInt32BE(buffer), version |-> BAt(buffer, 4),
                     type |-> BAt(buffer, 5), flags |-> BAt(buffer, 6),
                     payload |-> subarray(buffer, 7, 4 + readUInt32BE(buffer))],
          remaining |-> EmptyBuffer]

\* extractFrame(buffer): [status, frame, remaining]; status is "null" when more
\* data is needed, "frame" when a frame was extracted and "throw" when a
\* header read is out of range (readUInt8 past the end of frameBuffer)
extractFrame(buffer) ==
    LET frameLength == readUInt32BE(buffer)
        totalSize == 4 + frameLength
        frameBuffer == subarray(buffer, 4, totalSize)
        none == [length |-> 0, version |-> 0, type |-> 0, flags |-> 0,
                 payload |-> EmptyBuffer]
    IN  IF BLen(buffer) < 4 THEN
            [status |-> "null", frame |-> none, remaining |-> buffer]
        ELSE IF BLen(buffer) < totalSize THEN
            [status |-> "null", frame |-> none, remaining |-> buffer]
        ELSE IF BLen(frameBuffer) < 3 THEN
            [status |-> "throw", frame |-> none, remaining |-> buffer]
        ELSE
            [status |-> "frame",
             frame |-> [length |-> frameLength,
                        version |-> BAt(frameBuffer, 0),
                        type |-> BAt(frameBuffer, 1),
                        flags |-> BAt(frameBuffer, 2),
                        payload |-> subarray(frameBuffer, 3, BLen(frameBuffer))],
             remaining |-> subarray(buffer, totalSize, BLen(buffer))]

\* what decodeFrame gives when it throws a ProtocolError
DecodeThrew ==
    [threw |-> TRUE, version |-> 0, type |-> 0, flags |-> 0, payload |-> JNull]

\* the payload decodeFrame returns for the flags and the bytes that follow
\* the header; parsed is JSON.parse of these bytes
decodedPayload(flags, payloadBytes, parsed) ==
    IF BLen(payloadBytes) > 0
    THEN IF HasFlag(flags, FLAG_UTF8_JSON) THEN parsed.value
         ELSE JBuf(payloadBytes)
    ELSE JNull

\* decodeFrame(frameBuffer), the frame without its length field:
\* [threw, version, type, flags, payload]
decodeFrame(frameBuffer) ==
    IF BLen(frameBuffer) < HEADER_SIZE - 4 THEN DecodeThrew
    ELSE IF /\ BLen(frameBuffer) > 3
            /\ HasFlag(BAt(frameBuffer, 2), FLAG_UTF8_JSON)
            /\ ~JSONparse(subarray(frameBuffer, 3, BLen(frameBuffer))).ok
         THEN DecodeThrew
    ELSE [threw |-> FALSE,
          version |-> BAt(frameBuffer, 0),
          type |-> BAt(frameBuffer, 1),
          flags |-> BAt(frameBuffer, 2),
          payload |-> decodedPayload(
                          BAt(frameBuffer, 2),
                          subarray(frameBuffer, 3, BLen(frameBuffer)),
                          JSONparse(subarray(frameBuffer, 3, BLen(frameBuffer))))]

(***************************************************************************)
(* The server process                                                      *)
(***************************************************************************)
VARIABLES
    state,          \* Connection.state, by connection number
    recvBuffer,     \* Connection.recvBuffer
    bytesSent,      \* Connection.bytesSent
    bytesReceived,  \* Connection.bytesReceived
    connections,    \* ConnectionManager.connections (its keys)
    nextId,         \* ConnectionManager.nextId
    listening,      \* the net.Server accepts sockets
    rooms,          \* RoomManager.rooms: room name -> Room.members, the
                    \* connection numbers in insertion order
    connectionRooms,\* RoomManager.connectionRooms: connection number -> its
                    \* room names in insertion order
    broken,         \* the connections whose socket.write throws
    crashed,        \* an exception left a socket event handler uncaught
    pending,        \* bytes a peer has written that its socket has yet to deliver
    peerWrites,     \* writes the peers have made so far
    calls,          \* public send() calls made so far
    closeEvents,    \* "close" events each Connection has emitted so far
    sock,           \* each socket: "open", "errored" (its "error" event has
                    \* been delivered) or "closed" (its "close" event has)
    needDrain,      \* a write to the socket has returned false since its last
                    \* "drain" event
    last,           \* the step just taken, see Step
    codec           \* a caller of the frame codec outside any connection: what
                    \* it encodes, feeds to extractFrame and gets back

serverVars == <<state, recvBuffer, bytesSent, bytesReceived, connections, nextId,
                listening, rooms, connectionRooms, broken, crashed, pending,
                peerWrites, calls, closeEvents, sock, needDrain, last>>

vars == <<state, recvBuffer, bytesSent, bytesReceived, connections, nextId,
          listening, rooms, connectionRooms, broken, crashed, pending, peerWrites, calls, closeEvents,
          sock, needDrain, last, codec>>

ConnectionState == {"INIT", "OPEN", "DRAINING", "CLOSING", "CLOSED"}

\* the connection numbers n of the ids "conn-n" a run can create
Conns == 1..MaxConns

\* what a handler does besides assigning fields, in order: an event emitted
\* by a Connection, a call of socket.write or socket.end, a call of a
\* message handler
Effect(kind, c, name, arg, num, num2, buf) ==
    [kind |-> kind, conn |-> c, name |-> name, arg |-> arg, num |-> num,
     num2 |-> num2, buf |-> buf]

\* the program state a handler works on, with the effects logged so far and
\* the exception in flight ("" when none)
G == [state |-> state, recvBuffer |-> recvBuffer, bytesSent |-> bytesSent,
      bytesReceived |-> bytesReceived, connections |-> connections,
      nextId |-> nextId, listening |-> listening, rooms |-> rooms,
      connectionRooms |-> connectionRooms, broken |-> broken,
      effects |-> <<>>, sends |-> <<>>, exc |-> ""]

Log(g, e) == [g EXCEPT !.effects = Append(g.effects, e)]

Throw(g, name) == [g EXCEPT !.exc = name]

(***************************************************************************)
(* Connection                                                              *)
(***************************************************************************)
\* isTransitionAllowed with a table that lets a CLOSED connection reopen
isTransitionAllowedFromClosed(from, to) ==
    CASE from = "INIT" -> to \in {"OPEN"}
      [] from = "OPEN" -> to \in {"DRAINING", "CLOSING", "CLOSED"}
      [] from = "DRAINING" -> to \in {"OPEN", "CLOSING", "CLOSED"}
      [] from = "CLOSING" -> to \in {"CLOSED"}
      [] from = "CLOSED" -> to \in {"OPEN"}

\* the table of Connection.isTransitionAllowed
isTransitionAllowed(from, to) ==
    CASE from = "INIT" -> to \in {"OPEN"}
      [] from = "OPEN" -> to \in {"DRAINING", "CLOSING", "CLOSED"}
      [] from = "DRAINING" -> to \in {"OPEN", "CLOSING", "CLOSED"}
      [] from = "CLOSING" -> to \in {"CLOSED"}
      [] from = "CLOSED" -> FALSE

\* Connection.transition(next); the "state" event has no listener
transition(g, c, next) ==
    IF g.state[c] = next THEN g
    ELSE IF ~isTransitionAllowed(g.state[c], next)
         THEN Throw(g, "InvalidTransition")
         ELSE Log([g EXCEPT !.state[c] = next],
                  Effect("emit", c, "state", next, 0, 0, <<>>))

\* this.emit("error", {type, reason, fatal}); the server's listener logs it
emitError(g, c, type, fatal) ==
    Log(g, Effect("emit", c, "error", type, IF fatal THEN 1 ELSE 0, 0, <<>>))

\* the try block of Connection.send once encodeFrame has returned or thrown,
\* and its catch clause; full is the set of connections whose socket buffer
\* is full, so that socket.write returns false
writeFrame(g, c, type, enc, full) ==
    LET canWrite == c \notin full
        g1 == [g EXCEPT !.bytesSent[c] = g.bytesSent[c] + BLen(enc.buffer)]
        g2 == Log(g1, Effect("write", c, "", "", type,
                             IF canWrite THEN 1 ELSE 0, enc.buffer))
        g3 == transition(g2, c, "DRAINING")
    IN  IF enc.threw THEN emitError(g, c, "transport", FALSE)
        ELSE IF c \in g.broken THEN emitError(g1, c, "transport", FALSE)
        ELSE IF ~canWrite /\ g.state[c] = "OPEN"
             THEN IF g3.exc # ""
                  THEN emitError(Throw(g3, ""), c, "transport", FALSE)
                  ELSE g3
             ELSE g2

\* the try block of Connection.send and its catch clause
sendWritable(g, c, type, payload, full) ==
    writeFrame(g, c, type, encodeFrame(type, payload, NoFlags), full)

\* send() that raises an error to its caller when the state is not writable
sendThrowing(g, c, type, payload, full) ==
    IF g.state[c] \notin {"OPEN", "DRAINING"} THEN Throw(g, "NotWritableError")
    ELSE sendWritable(g, c, type, payload, full)

\* send() without the check of the state
sendUnguarded(g, c, type, payload, full) == sendWritable(g, c, type, payload, full)

\* the try block of send() without a catch clause
writeFrameUncaught(g, c, type, enc, full) ==
    IF enc.threw THEN Throw(g, "TypeError")
    ELSE IF c \in g.broken
         THEN Throw([g EXCEPT !.bytesSent[c] = g.bytesSent[c] + BLen(enc.buffer)],
                    "Error")
    ELSE writeFrame(g, c, type, enc, full)

\* send() without its try and catch: what encodeFrame or socket.write throws
\* reaches the caller
sendUncaught(g, c, type, payload, full) ==
    IF g.state[c] \notin {"OPEN", "DRAINING"} THEN g
    ELSE writeFrameUncaught(g, c, type, encodeFrame(type, payload, NoFlags), full)

\* g with the call connection.send(type, payload) of connection c noted
Called(g, c, type, payload) ==
    [g EXCEPT !.sends = Append(g.sends, [conn |-> c, type |-> type,
                                         payload |-> payload])]

\* Connection.send(type, payload)
send(g, c, type, payload, full) ==
    IF g.state[c] \notin {"OPEN", "DRAINING"} THEN Called(g, c, type, payload)
    ELSE sendWritable(Called(g, c, type, payload), c, type, payload, full)

\* close() that assigns the state itself, in any state
closeDirect(g, c) ==
    Log([g EXCEPT !.state[c] = "CLOSING"], Effect("end", c, "", "", 0, 0, <<>>))

\* close() without the check of the state
closeUnguarded(g, c) ==
    LET g1 == transition(g, c, "CLOSING")
    IN  IF g1.exc # "" THEN g1
        ELSE Log(g1, Effect("end", c, "", "", 0, 0, <<>>))

\* Connection.close()
close(g, c) ==
    IF g.state[c] \in {"CLOSING", "CLOSED"} THEN g
    ELSE LET g1 == transition(g, c, "CLOSING")
         IN  IF g1.exc # "" THEN g1
             ELSE Log(g1, Effect("end", c, "", "", 0, 0, <<>>))

(***************************************************************************)
(* Room and RoomManager                                                    *)
(***************************************************************************)
\* no connection: the excludeConnectionId a caller leaves out
NoConn == 0

\* "conn-" + n
ConnectionId(n) == S_connPrefix \o DecStr(n)

\* f without the key k
Without(f, k) == [x \in DOMAIN f \ {k} |-> f[x]]

\* f with the key k set to v: Map.set
With(f, k, v) == [x \in DOMAIN f \cup {k} |-> IF x = k THEN v ELSE f[x]]

\* the sequence s without its elements equal to e, the order kept
RECURSIVE Remove(_, _)
Remove(s, e) ==
    IF s = <<>> THEN <<>>
    ELSE (IF Head(s) = e THEN <<>> ELSE <<Head(s)>>) \o Remove(Tail(s), e)

\* Room.hasMember(connectionId) of the room roomName
hasMember(g, roomName, c) ==
    \E i \in DOMAIN g.rooms[roomName] : g.rooms[roomName][i] = c

\* Room.isEmpty()
isEmpty(g, roomName) == Len(g.rooms[roomName]) = 0

RECURSIVE broadcastLoop(_, _, _, _, _)
\* the loop of Room.broadcast over the members left to visit
broadcastLoop(g, left, payload, exclude, full) ==
    IF left = <<>> \/ g.exc # "" THEN g
    ELSE broadcastLoop(IF Head(left) = exclude THEN g
                       ELSE send(g, Head(left), MESSAGE, payload, full),
                       Tail(left), payload, exclude, full)

\* Room.broadcast that leaves no member out
broadcastToAll(g, roomName, payload, exclude, full) ==
    broadcastLoop(g, g.rooms[roomName], payload, NoConn, full)

\* Room.broadcast(payload, excludeConnectionId)
broadcast(g, roomName, payload, exclude, full) ==
    broadcastLoop(g, g.rooms[roomName], payload, exclude, full)

\* the payload of the notification Room.join and Room.leave broadcast
Notification(kind, roomName, c) ==
    JObj(<< <<S_type, JStr(kind)>>, <<S_room, JStr(roomName)>>,
            <<S_connectionId, JStr(ConnectionId(c))>> >>)

\* Room.join that notifies the others of a member that joins again
joinAnnouncing(g, roomName, c, full) ==
    broadcast(IF hasMember(g, roomName, c) THEN g
              ELSE [g EXCEPT !.rooms[roomName] = Append(g.rooms[roomName], c)],
              roomName, Notification(S_userJoined, roomName, c), c, full)

\* Room.join that notifies the joiner, too
joinNotifyingAll(g, roomName, c, full) ==
    IF hasMember(g, roomName, c) THEN g
    ELSE broadcast([g EXCEPT !.rooms[roomName] = Append(g.rooms[roomName], c)],
                   roomName, Notification(S_userJoined, roomName, c), NoConn, full)

\* Room.join(connection)
join(g, roomName, c, full) ==
    IF hasMember(g, roomName, c) THEN g
    ELSE broadcast([g EXCEPT !.rooms[roomName] = Append(g.rooms[roomName], c)],
                   roomName, Notification(S_userJoined, roomName, c), c, full)

\* Room.leave that notifies the members whoever leaves
leaveAnnouncing(g, roomName, c, full) ==
    broadcast([g EXCEPT !.rooms[roomName] = Remove(g.rooms[roomName], c)],
              roomName, Notification(S_userLeft, roomName, c), NoConn, full)

\* Room.leave that notifies the members before it deletes the one that leaves
leaveNotifyingFirst(g, roomName, c, full) ==
    IF ~hasMember(g, roomName, c) THEN g
    ELSE [broadcast(g, roomName, Notification(S_userLeft, roomName, c), NoConn, full)
             EXCEPT !.rooms[roomName] = Remove(g.rooms[roomName], c)]

\* Room.leave(connectionId)
leave(g, roomName, c, full) ==
    IF ~hasMember(g, roomName, c) THEN g
    ELSE broadcast([g EXCEPT !.rooms[roomName] = Remove(g.rooms[roomName], c)],
                   roomName, Notification(S_userLeft, roomName, c), NoConn, full)

\* RoomManager.getRoom(roomName) returns a room
getRoom(g, roomName) == roomName \in DOMAIN g.rooms

\* the end of joinRoom: "Track connection's rooms"
track(g, c, roomName) ==
    LET had == IF c \in DOMAIN g.connectionRooms THEN g.connectionRooms[c] ELSE <<>>
    IN  IF g.exc # "" THEN g
        ELSE [g EXCEPT !.connectionRooms =
                 With(g.connectionRooms, c,
                      IF \E i \in DOMAIN had : had[i] = roomName THEN had
                      ELSE Append(had, roomName))]

\* RoomManager.joinRoom(connection, roomName)
joinRoom(g, c, roomName, full) ==
    track(join(IF getRoom(g, roomName) THEN g
               ELSE [g EXCEPT !.rooms = With(g.rooms, roomName, <<>>)],
               roomName, c, full),
          c, roomName)

\* "Update tracking" that keeps the set of a connection when it is empty
untrackKeepingEmpty(g, c, roomName) ==
    IF g.exc # "" \/ c \notin DOMAIN g.connectionRooms THEN g
    ELSE [g EXCEPT !.connectionRooms[c] = Remove(g.connectionRooms[c], roomName)]

\* the middle of leaveRoom: "Update tracking"
untrack(g, c, roomName) ==
    LET connRooms == Remove(g.connectionRooms[c], roomName)
    IN  IF g.exc # "" \/ c \notin DOMAIN g.connectionRooms THEN g
        ELSE IF Len(connRooms) = 0
             THEN [g EXCEPT !.connectionRooms = Without(g.connectionRooms, c)]
             ELSE [g EXCEPT !.connectionRooms[c] = connRooms]

\* the end of leaveRoom without its test: the room is deleted, empty or not
cleanupAlways(g, roomName) ==
    IF g.exc # "" THEN g ELSE [g EXCEPT !.rooms = Without(g.rooms, roomName)]

\* the end of leaveRoom left out: no room is deleted
cleanupNever(g, roomName) == g

\* the end of RoomManager.leaveRoom: "Cleanup empty room"
cleanup(g, roomName) ==
    IF g.exc = "" /\ isEmpty(g, roomName)
    THEN [g EXCEPT !.rooms = Without(g.rooms, roomName)]
    ELSE g

\* leaveRoom that returns after "Update tracking"
leaveRoomKeepingRoom(g, c, roomName, full) ==
    IF ~getRoom(g, roomName) THEN g
    ELSE untrack(leave(g, roomName, c, full), c, roomName)

\* RoomManager.leaveRoom(connectionId, roomName)
leaveRoom(g, c, roomName, full) ==
    IF ~getRoom(g, roomName) THEN g
    ELSE cleanup(untrack(leave(g, roomName, c, full), c, roomName), roomName)

RECURSIVE leaveEach(_, _, _, _)
\* the loop of leaveAllRooms over the room names left to visit
leaveEach(g, c, left, full) ==
    IF left = <<>> \/ g.exc # "" THEN g
    ELSE leaveEach(leaveRoom(g, c, Head(left), full), c, Tail(left), full)

\* leaveAllRooms that leaves the first room of the connection only
leaveFirstRoom(g, c, full) ==
    IF c \notin DOMAIN g.connectionRooms THEN g
    ELSE leaveRoom(g, c, Head(g.connectionRooms[c]), full)

\* RoomManager.leaveAllRooms(connectionId)
leaveAllRooms(g, c, full) ==
    IF c \notin DOMAIN g.connectionRooms THEN g
    ELSE leaveEach(g, c, g.connectionRooms[c], full)

\* broadcastToRoom that goes through the members twice
broadcastToRoomTwice(g, roomName, payload, exclude, full) ==
    IF getRoom(g, roomName)
    THEN broadcast(broadcast(g, roomName, payload, exclude, full),
                   roomName, payload, exclude, full)
    ELSE g

\* RoomManager.broadcastToRoom(roomName, payload, excludeConnectionId)
broadcastToRoom(g, roomName, payload, exclude, full) ==
    IF getRoom(g, roomName) THEN broadcast(g, roomName, payload, exclude, full)
    ELSE g

\* the "close" listeners without the call of leaveAllRooms
onCloseEventWithoutCleanup(g, c, full) ==
    [g EXCEPT !.connections = g.connections \ {c}]

\* the listeners of a connection's "close" event, in the order they were
\* added: the ConnectionManager's, then the server's, which leaves the rooms
onCloseEvent(g, c, full) ==
    leaveAllRooms(
        Log([g EXCEPT !.connections = g.connections \ {c}],
            Effect("call", c, "leaveAllRooms", "", 0, 0, <<>>)),
        c, full)

\* handleClose() with the check of close(): it returns when the connection
\* is CLOSING, too
handleCloseUnlessClosing(g, c, full) ==
    IF g.state[c] \in {"CLOSING", "CLOSED"} THEN g
    ELSE LET g1 == transition(g, c, "CLOSED")
         IN  IF g1.exc # "" THEN g1
             ELSE onCloseEvent(
                      Log(g1, Effect("emit", c, "close", "", g1.bytesSent[c],
                                     g1.bytesReceived[c], <<>>)),
                      c, full)

\* Connection.handleClose()
handleClose(g, c, full) ==
    IF g.state[c] = "CLOSED" THEN g
    ELSE LET g1 == transition(g, c, "CLOSED")
         IN  IF g1.exc # "" THEN g1
             ELSE onCloseEvent(
                      Log(g1, Effect("emit", c, "close", "", g1.bytesSent[c],
                                     g1.bytesReceived[c], <<>>)),
                      c, full)

(***************************************************************************)
(* Server dispatch                                                         *)
(***************************************************************************)
\* handleHello(connection, frame)
handleHello(g, c, frame, full) ==
    LET g1 == Log(g, Effect("call", c, "handleHello", "", frame.type, 0, <<>>))
        g2 == send(g1, c, HELLO,
                   JObj(<< <<S_status, JStr(S_connected)>>,
                           <<S_connectionId, JStr(ConnectionId(c))>>,
                           <<S_serverVersion, JStr(S_1_0_0)>> >>),
                   full)
    IN  \* payload.userId of a null payload is a TypeError
        IF frame.payload.t = "null" THEN Throw(g2, "TypeError") ELSE g2

\* { error: text }
ErrorPayload(text) == JObj(<< <<S_error, JStr(text)>> >>)

\* Date.now() at the time of the run: the clock's milliseconds, here a value
\* within the integers of the model checker
Now == 1000000000

\* connection.send(type, payload) as the next statement after the calls that
\* gave g
thenSend(g, c, type, payload, full) ==
    IF g.exc # "" THEN g ELSE send(g, c, type, payload, full)

\* handleJoinRoom(connection, frame, roomManager)
handleJoinRoom(g, c, frame, full) ==
    LET payload == frame.payload
        room == GetProp(payload, S_room)
        roomName == trim(room.s)
        g0 == Log(g, Effect("call", c, "handleJoinRoom", "", frame.type, 0, <<>>))
    IN  IF payload.t \in {"null", "undefined"} THEN Throw(g0, "TypeError")
        ELSE IF Falsy(room) \/ room.t # "string"
                \/ Len(roomName) = 0 \/ Len(roomName) > 64
             THEN send(g0, c, ERROR,
                       ErrorPayload(IF Falsy(room) \/ room.t # "string"
                                    THEN S_InvalidRoomName ELSE S_RoomNameLength),
                       full)
        ELSE thenSend(joinRoom(g0, c, roomName, full), c, JOIN_ROOM,
                      JObj(<< <<S_status, JStr(S_joined)>>,
                              <<S_room, JStr(roomName)>> >>),
                      full)

\* handleLeaveRoom(connection, frame, roomManager)
handleLeaveRoom(g, c, frame, full) ==
    LET payload == frame.payload
        room == GetProp(payload, S_room)
        roomName == trim(room.s)
        g0 == Log(g, Effect("call", c, "handleLeaveRoom", "", frame.type, 0, <<>>))
    IN  IF payload.t \in {"null", "undefined"} THEN Throw(g0, "TypeError")
        ELSE IF Falsy(room) \/ room.t # "string"
             THEN send(g0, c, ERROR, ErrorPayload(S_InvalidRoomName), full)
        ELSE thenSend(leaveRoom(g0, c, roomName, full), c, LEAVE_ROOM,
                      JObj(<< <<S_status, JStr(S_left)>>,
                              <<S_room, JStr(roomName)>> >>),
                      full)

\* handleMessage that broadcasts to a room of which the sender is no member
handleMessageFromAnyone(g, c, frame, full) ==
    LET payload == frame.payload
        roomName == trim(GetProp(payload, S_room).s)
        g0 == Log(g, Effect("call", c, "handleMessage", "", frame.type, 0, <<>>))
    IN  broadcastToRoom(g0, roomName,
                        JObj(<< <<S_room, JStr(roomName)>>,
                                <<S_from, JStr(ConnectionId(c))>>,
                                <<S_content, GetProp(payload, S_content)>>,
                                <<S_timestamp, JNum(Now)>> >>),
                        c, full)

\* handleMessage(connection, frame, roomManager)
handleMessage(g, c, frame, full) ==
    LET payload == frame.payload
        room == GetProp(payload, S_room)
        content == GetProp(payload, S_content)
        roomName == trim(room.s)
        g0 == Log(g, Effect("call", c, "handleMessage", "", frame.type, 0, <<>>))
        refusal ==
            IF Falsy(room) \/ room.t # "string" THEN S_RoomNameRequired
            ELSE IF content.t = "undefined" THEN S_MessageContentRequired
            ELSE IF ~getRoom(g0, roomName)
                 THEN S_RoomOpen \o roomName \o S_DoesNotExist
            ELSE IF ~hasMember(g0, roomName, c)
                 THEN S_NotInRoom \o roomName \o S_Apostrophe
            ELSE <<>>
    IN  IF payload.t \in {"null", "undefined"} THEN Throw(g0, "TypeError")
        ELSE IF refusal # <<>> THEN send(g0, c, ERROR, ErrorPayload(refusal), full)
        ELSE broadcastToRoom(g0, roomName,
                             JObj(<< <<S_room, JStr(roomName)>>,
                                     <<S_from, JStr(ConnectionId(c))>>,
                                     <<S_content, content>>,
                                     <<S_timestamp, JNum(Now)>> >>),
                             c, full)

\* the catch clause of handleFrame: r is what the switch statement gave
catchHandler(r, c, full) ==
    IF r.exc # ""
    THEN send(Throw(r, ""), c, ERROR, ErrorPayload(S_InternalServerError), full)
    ELSE r

\* RelayServer.handleFrame(connection, frame)
handleFrame(g, c, frame, full) ==
    catchHandler(
        CASE frame.type = HELLO -> handleHello(g, c, frame, full)
          [] frame.type = JOIN_ROOM -> handleJoinRoom(g, c, frame, full)
          [] frame.type = LEAVE_ROOM -> handleLeaveRoom(g, c, frame, full)
          [] frame.type = MESSAGE -> handleMessage(g, c, frame, full)
          [] frame.type = HEARTBEAT -> g
          [] frame.type \notin {HELLO, JOIN_ROOM, LEAVE_ROOM, MESSAGE, HEARTBEAT} ->
               send(g, c, ERROR,
                    ErrorPayload(S_UnknownMessageType \o DecStr(frame.type)), full),
        c, full)

(***************************************************************************)
(* Inbound data                                                            *)
(***************************************************************************)
\* the payload parse() hands on: [ok, value], ok = FALSE when JSON.parse throws
decodePayload(frame) ==
    IF BLen(frame.payload) > 0
    THEN IF HasFlag(frame.flags, FLAG_UTF8_JSON) THEN JSONparse(frame.payload)
         ELSE [ok |-> TRUE, value |-> JBuf(frame.payload)]
    ELSE [ok |-> TRUE, value |-> JNull]

\* the try block of parse(): the payload is decoded and the frame emitted
tryBlock(g, c, frame, full) ==
    LET decoded == decodePayload(frame)
        parsed == [version |-> frame.version, type |-> frame.type,
                   flags |-> frame.flags, payload |-> decoded.value]
    IN  IF ~decoded.ok THEN Throw(g, "SyntaxError")
        ELSE IF parsed.type = HEARTBEAT
             THEN Log(g, Effect("emit", c, "heartbeat", "", parsed.type,
                                parsed.flags, frame.payload))
             ELSE handleFrame(
                      Log(g, Effect("emit", c, "frame", "", parsed.type,
                                    parsed.flags, frame.payload)),
                      c, parsed, full)

RECURSIVE parse(_, _, _)
RECURSIVE parseNext(_, _, _)
\* the catch clause of parse() and the next turn of its loop: r is what the
\* try block gave
parseNext(r, c, full) ==
    IF r.exc # "" THEN close(emitError(Throw(r, ""), c, "protocol", TRUE), c)
    ELSE parse(r, c, full)

\* Connection.parse(): the loop over the frames of recvBuffer
parse(g, c, full) ==
    LET result == extractFrame(g.recvBuffer[c])
    IN  IF BLen(g.recvBuffer[c]) > MAX_FRAME_SIZE
        THEN close(emitError(g, c, "protocol", TRUE), c)
        ELSE IF result.status = "throw" THEN Throw(g, "RangeError")
        ELSE IF result.status = "null" THEN g
        ELSE parseNext(tryBlock([g EXCEPT !.recvBuffer[c] = result.remaining],
                                c, result.frame, full),
                       c, full)

\* onData that puts the chunk before the bytes that wait in recvBuffer
onDataPrepending(g, c, chunk, full) ==
    parse([g EXCEPT !.recvBuffer[c] = BufferConcat(chunk, g.recvBuffer[c])], c, full)

\* Connection.onData(chunk)
onData(g, c, chunk, full) ==
    parse([g EXCEPT !.recvBuffer[c] = BufferConcat(g.recvBuffer[c], chunk)], c, full)

\* a "data" listener that drops what arrives unless the state is OPEN
onSocketDataOpenOnly(g, c, chunk, full) ==
    IF g.state[c] # "OPEN" THEN g
    ELSE onData([g EXCEPT !.bytesReceived[c] = g.bytesReceived[c] + BLen(chunk)],
                c, chunk, full)

\* the socket's "data" listener
onSocketData(g, c, chunk, full) ==
    IF g.state[c] = "CLOSED" THEN g
    ELSE onData([g EXCEPT !.bytesReceived[c] = g.bytesReceived[c] + BLen(chunk)],
                c, chunk, full)

\* a "drain" listener that does nothing
onSocketDrainIgnored(g, c) == g

\* a "drain" listener without the check of the state
onSocketDrainAlways(g, c) ==
    LET g1 == transition(g, c, "OPEN")
    IN  IF g1.exc # "" THEN g1
        ELSE Log(g1, Effect("emit", c, "drain", "", 0, 0, <<>>))

\* the socket's "drain" listener; the "drain" event has no listener
onSocketDrain(g, c) ==
    IF g.state[c] = "DRAINING"
    THEN LET g1 == transition(g, c, "OPEN")
         IN  IF g1.exc # "" THEN g1
             ELSE Log(g1, Effect("emit", c, "drain", "", 0, 0, <<>>))
    ELSE g

\* the socket's "error" listener
onSocketError(g, c) == close(emitError(g, c, "transport", TRUE), c)

(***************************************************************************)
(* ConnectionManager and RelayServer                                       *)
(***************************************************************************)
\* new Connection(socket, connectionId); "open" has no listener yet
Connection(g, c) ==
    LET g1 == transition(g, c, "OPEN")
    IN  IF g1.exc # "" THEN g1
        ELSE Log(g1, Effect("emit", c, "open", "", 0, 0, <<>>))

\* generateId() that gives the lowest number no open connection has
generateIdOfFreeSlot(g) ==
    CHOOSE n \in 1..g.nextId :
        /\ n \notin g.connections
        /\ \A k \in 1..(n - 1) : k \in g.connections

\* ConnectionManager.generateId(): the n of "conn-n"
generateId(g) == g.nextId

\* ConnectionManager.createConnection(socket)
createConnection(g) ==
    LET id == generateId(g)
        g1 == Connection([g EXCEPT !.nextId = g.nextId + 1], id)
    IN  IF g1.exc # "" THEN g1
        ELSE [g1 EXCEPT !.connections = g1.connections \cup {id}]

RECURSIVE closeEach(_, _)
\* the loop of closeAll over the connections left to visit, in insertion order
closeEach(g, left) ==
    IF left = {} \/ g.exc # "" THEN g
    ELSE LET c == CHOOSE x \in left : \A y \in left : x <= y
         IN  closeEach(close(g, c), left \ {c})

\* closeAll() that also empties the map of connections
closeAllForgetting(g) == [closeEach(g, g.connections) EXCEPT !.connections = {}]

\* ConnectionManager.closeAll()
closeAll(g) == closeEach(g, g.connections)

\* RelayServer.start() up to the end of server.listen; free tells whether the
\* port can be bound.  A server that listens already makes server.listen
\* throw, which rejects the promise and changes nothing; a port that is held
\* makes the net.Server emit "error", which has no listener: an uncaught
\* exception, the server not listening
start(g, free) ==
    IF g.listening THEN g
    ELSE IF free THEN [g EXCEPT !.listening = TRUE]
    ELSE Throw(g, "EADDRINUSE")

\* RelayServer.stop(): closeAll, then server.close
stop(g) == [closeAll(g) EXCEPT !.listening = FALSE]

(***************************************************************************)
(* What the peers and the application do                                   *)
(***************************************************************************)
\* the bytes of a frame as a peer writes it
WireFrame(version, type, flags, payload) ==
    BufferFrom(writeUInt32BE(3 + Len(payload)) \o <<version, type, flags>> \o payload)

\* HELLO with the JSON payload {}
HelloFrame == WireFrame(1, HELLO, FLAG_UTF8_JSON, <<123, 125>>)
\* HELLO without payload
HelloEmptyFrame == WireFrame(1, HELLO, 0, <<>>)
\* HEARTBEAT
HeartbeatFrame == WireFrame(1, HEARTBEAT, 0, <<>>)
\* HELLO flagged UTF8_JSON whose payload is the text {
BadJsonFrame == WireFrame(1, HELLO, FLAG_UTF8_JSON, <<123>>)
\* a frame of type 7, which is no message type
UnknownTypeFrame == WireFrame(1, 7, 0, <<>>)
\* a length field of zero
ZeroLengthFrame == BufferFrom(<<0, 0, 0, 0>>)

PeerFrames ==
    {HelloFrame, HelloEmptyFrame, HeartbeatFrame, BadJsonFrame, UnknownTypeFrame,
     ZeroLengthFrame}

\* where a peer's frame is cut when it arrives in two chunks
SplitAt == 5

\* what one write of a peer delivers: <<chunk, rest>>, the chunk of the next
\* "data" event and the bytes that follow in a later one.  A write is one
\* frame, one frame cut in two, two frames in one chunk, or two frames of
\* which the first is cut in two.
PeerWrites ==
    {<<f, EmptyBuffer>> : f \in PeerFrames}
    \cup {<<BTake(f, SplitAt), BDrop(f, SplitAt)>> : f \in PeerFrames \ {ZeroLengthFrame}}
    \cup {<<BufferConcat(HeartbeatFrame, f), EmptyBuffer>> :
              f \in {HelloEmptyFrame, UnknownTypeFrame}}
    \cup {<<BTake(HelloFrame, SplitAt),
            BufferConcat(BDrop(HelloFrame, SplitAt), UnknownTypeFrame)>>}

\* the payloads the application passes to send()
SendPayloads == {JUndefined, JObj(<<>>), JBigInt}

\* the message types the application passes to send()
SendTypes == {MESSAGE}

\* the connections that have been constructed
Created == 1..(nextId - 1)

\* the inputs of a step: the chunk of a "data" event, the arguments of send(),
\* the state asked of transition(), the room name and the excluded connection
\* of a call of the RoomManager
NoInput == [chunk |-> EmptyBuffer, type |-> 0, payload |-> JUndefined, next |-> "",
            room |-> <<>>, exclude |-> NoConn]

\* how many "close" events connection c emits among the effects
RECURSIVE CloseEmits(_, _)
CloseEmits(effects, c) ==
    IF effects = <<>> THEN 0
    ELSE (IF Head(effects).kind = "emit" /\ Head(effects).name = "close"
             /\ Head(effects).conn = c THEN 1 ELSE 0)
         + CloseEmits(Tail(effects), c)

\* socket.write has returned false to connection c among the effects
WriteRefused(effects, c) ==
    \E i \in DOMAIN effects :
        effects[i].kind = "write" /\ effects[i].conn = c /\ effects[i].num2 = 0

\* the step from the current state to g, taken by operation op on connection
\* c; an exception no handler catches ends the process.  last keeps the
\* operation, its inputs, the fields of c and the rooms before it, what it
\* did, the calls of send() it made and the exception it raised.
\* the codec's caller before it has encoded anything
NoCodec == [inputs |-> <<>>, wire |-> EmptyBuffer, acc |-> EmptyBuffer, out |-> <<>>,
            result |-> "none", chunks |-> 0, decoded |-> <<>>]

Step(op, c, input, g) ==
    /\ state' = g.state
    /\ recvBuffer' = g.recvBuffer
    /\ bytesSent' = g.bytesSent
    /\ bytesReceived' = g.bytesReceived
    /\ connections' = g.connections
    /\ nextId' = g.nextId
    /\ listening' = g.listening
    /\ rooms' = g.rooms
    /\ connectionRooms' = g.connectionRooms
    /\ broken' = g.broken
    /\ crashed' = (g.exc # "")
    /\ closeEvents' = [x \in Conns |-> closeEvents[x] + CloseEmits(g.effects, x)]
    /\ sock' = CASE op = "socketClose" -> [sock EXCEPT ![c] = "closed"]
                 [] op = "socketError" -> [sock EXCEPT ![c] = "errored"]
                 [] OTHER -> sock
    /\ needDrain' = [x \in Conns |->
                        IF op = "drain" /\ x = c THEN FALSE
                        ELSE needDrain[x] \/ WriteRefused(g.effects, x)]
    /\ last' = [op |-> op, conn |-> c, pre |-> state[c], preSent |-> bytesSent[c],
                preBuf |-> recvBuffer[c], preRooms |-> rooms,
                preConnRooms |-> connectionRooms, input |-> input,
                effects |-> g.effects, sends |-> g.sends, exc |-> g.exc]
    /\ codec' = codec

Init ==
    /\ state = [c \in Conns |-> "INIT"]
    /\ recvBuffer = [c \in Conns |-> EmptyBuffer]
    /\ bytesSent = [c \in Conns |-> 0]
    /\ bytesReceived = [c \in Conns |-> 0]
    /\ connections = {}
    /\ nextId = 1
    /\ listening = FALSE
    /\ rooms = <<>>
    /\ connectionRooms = <<>>
    /\ broken = {}
    /\ crashed = FALSE
    /\ pending = [c \in Conns |-> EmptyBuffer]
    /\ peerWrites = 0
    /\ calls = 0
    /\ closeEvents = [c \in Conns |-> 0]
    /\ sock = [c \in Conns |-> "open"]
    /\ needDrain = [c \in Conns |-> FALSE]
    /\ last = [op |-> "init", conn |-> 1, pre |-> "INIT", preSent |-> 0,
               preBuf |-> EmptyBuffer, preRooms |-> <<>>, preConnRooms |-> <<>>,
               input |-> NoInput, effects |-> <<>>, sends |-> <<>>, exc |-> ""]
    /\ codec = NoCodec

\* RelayServer.handleSocket(socket): the server accepts a socket
Accept ==
    /\ ~crashed /\ listening /\ nextId <= MaxConns
    /\ Step("accept", generateId(G), NoInput, createConnection(G))
    /\ UNCHANGED <<pending, peerWrites, calls>>

\* a "data" event of connection c's socket: the rest of the peer's last
\* write when there is one, else the first chunk of a new write w
SocketData(c, w, full) ==
    LET chunk == IF pending[c] # EmptyBuffer THEN pending[c] ELSE w[1]
        rest == IF pending[c] # EmptyBuffer THEN EmptyBuffer ELSE w[2]
    IN  /\ ~crashed /\ c \in Created /\ sock[c] = "open"
        /\ pending[c] # EmptyBuffer => w = <<pending[c], EmptyBuffer>>
        /\ pending[c] = EmptyBuffer => peerWrites < MaxPeerWrites
        /\ Step("data", c, [NoInput EXCEPT !.chunk = chunk],
                onSocketData(G, c, chunk, full))
        /\ pending' = [pending EXCEPT ![c] = rest]
        /\ peerWrites' = IF pending[c] = EmptyBuffer THEN peerWrites + 1 ELSE peerWrites
        /\ UNCHANGED calls

\* a "drain" event of connection c's socket: its buffer is empty again
SocketDrain(c) ==
    /\ ~crashed /\ c \in Created /\ sock[c] = "open" /\ needDrain[c]
    /\ Step("drain", c, NoInput, onSocketDrain(G, c))
    /\ UNCHANGED <<pending, peerWrites, calls>>

\* the "close" event of connection c's socket, the last event of a socket
SocketClose(c, full) ==
    /\ ~crashed /\ c \in Created /\ sock[c] # "closed"
    /\ Step("socketClose", c, NoInput, handleClose(G, c, full))
    /\ UNCHANGED <<pending, peerWrites, calls>>

\* the "error" event of connection c's socket; only "close" follows it
SocketError(c) ==
    /\ ~crashed /\ c \in Created /\ sock[c] = "open"
    /\ Step("socketError", c, NoInput, onSocketError(G, c))
    /\ UNCHANGED <<pending, peerWrites, calls>>

\* the application calls connection.send(type, payload)
Send(c, type, payload, full) ==
    /\ ~crashed /\ c \in Created /\ calls < MaxCalls
    /\ Step("send", c, [NoInput EXCEPT !.type = type, !.payload = payload],
            send(G, c, type, payload, full))
    /\ calls' = calls + 1
    /\ UNCHANGED <<pending, peerWrites>>

\* the application calls connection.close()
Close(c) ==
    /\ ~crashed /\ c \in Created
    /\ Step("close", c, NoInput, close(G, c))
    /\ UNCHANGED <<pending, peerWrites, calls>>

\* RelayServer.start(), at first or after stop(): the step is the moment
\* server.listen ends, with the "listening" event or with the "error" event;
\* between the call and that moment no variable of the server changes
Start(free) ==
    /\ ~crashed
    /\ Step("start", 1, NoInput, start(G, free))
    /\ UNCHANGED <<pending, peerWrites, calls>>

\* the process is told to shut down: RelayServer.stop()
Stop ==
    /\ ~crashed
    /\ Step("stop", 1, NoInput, stop(G))
    /\ UNCHANGED <<pending, peerWrites, calls>>

Next ==
    \/ \E free \in BOOLEAN : Start(free)
    \/ Accept
    \/ \E c \in Conns :
           \E w \in PeerWrites \cup {<<pending[c], EmptyBuffer>>}, full \in SUBSET {c} :
               SocketData(c, w, full)
    \/ \E c \in Conns : SocketDrain(c)
    \/ \E c \in Conns : \E full \in SUBSET (Conns \ {c}) : SocketClose(c, full)
    \/ \E c \in Conns : SocketError(c)
    \/ \E c \in Conns, type \in SendTypes, payload \in SendPayloads :
           \E full \in SUBSET {c} : Send(c, type, payload, full)
    \/ \E c \in Conns : Close(c)
    \/ Stop

Spec == Init /\ [][Next]_vars

\* the server with a transport that is fair: a socket that has refused a
\* write and stays open delivers its "drain" event at some time
SpecFair == Init /\ [][Next]_vars /\ \A c \in Conns : WF_vars(SocketDrain(c))

(***************************************************************************)
(* The server with sockets that still deliver events after "close": the    *)
(* listeners of wireSocket stay attached to the socket                     *)
(***************************************************************************)
\* a "data" event of a socket that has closed
LateData(c, chunk) ==
    /\ ~crashed /\ c \in Created /\ sock[c] = "closed"
    /\ Step("lateData", c, [NoInput EXCEPT !.chunk = chunk],
            onSocketData(G, c, chunk, {}))
    /\ UNCHANGED <<pending, peerWrites, calls>>

\* a "drain" event of a socket that has closed
LateDrain(c) ==
    /\ ~crashed /\ c \in Created /\ sock[c] = "closed"
    /\ Step("lateDrain", c, NoInput, onSocketDrain(G, c))
    /\ UNCHANGED <<pending, peerWrites, calls>>

\* a second "close" event of a socket
LateClose(c) ==
    /\ ~crashed /\ c \in Created /\ sock[c] = "closed"
    /\ Step("lateClose", c, NoInput, handleClose(G, c, {}))
    /\ UNCHANGED <<pending, peerWrites, calls>>

\* an "error" event of a socket that has closed
LateError(c) ==
    /\ ~crashed /\ c \in Created /\ sock[c] = "closed"
    /\ Step("lateError", c, NoInput, onSocketError(G, c))
    /\ UNCHANGED <<pending, peerWrites, calls>>

NextLate ==
    \/ \E free \in BOOLEAN : Start(free)
    \/ Accept
    \/ \E c \in Conns :
           \E w \in PeerWrites \cup {<<pending[c], EmptyBuffer>>}, full \in SUBSET {c} :
               SocketData(c, w, full)
    \/ \E c \in Conns : \E full \in SUBSET (Conns \ {c}) : SocketClose(c, full)
    \/ \E c \in Conns, type \in SendTypes, payload \in SendPayloads :
           \E full \in SUBSET {c} : Send(c, type, payload, full)
    \/ \E c \in Conns : Close(c)
    \/ \E c \in Conns, chunk \in {HelloFrame, HeartbeatFrame} : LateData(c, chunk)
    \/ \E c \in Conns : LateDrain(c)
    \/ \E c \in Conns : LateClose(c)
    \/ \E c \in Conns : LateError(c)

SpecLate == Init /\ [][NextLate]_vars

(***************************************************************************)
(* The server under room traffic                                           *)
(***************************************************************************)
\* the frames a peer sends, bound to the maximum number of them in a run
MaxRoomWrites == 3

\* the text of a JSON document as a peer writes it
JsonBytes(v) == JSONstringify(v)

\* {"room": name}
RoomPayload(name) == JObj(<< <<S_room, JStr(name)>> >>)

\* JOIN_ROOM of the room "r"
JoinFrame == WireFrame(1, JOIN_ROOM, FLAG_UTF8_JSON, JsonBytes(RoomPayload(RoomR)))
\* JOIN_ROOM of " "
JoinBlankFrame ==
    WireFrame(1, JOIN_ROOM, FLAG_UTF8_JSON, JsonBytes(RoomPayload(RoomBlank)))
\* JOIN_ROOM of a name of 65 characters
JoinLongFrame ==
    WireFrame(1, JOIN_ROOM, FLAG_UTF8_JSON, JsonBytes(RoomPayload(RoomLong)))
\* LEAVE_ROOM of "r"
LeaveFrame == WireFrame(1, LEAVE_ROOM, FLAG_UTF8_JSON, JsonBytes(RoomPayload(RoomR)))
\* MESSAGE to "r" with the content 1
MessageFrame ==
    WireFrame(1, MESSAGE, FLAG_UTF8_JSON,
              JsonBytes(JObj(<< <<S_room, JStr(RoomR)>>, <<S_content, JNum(1)>> >>)))
\* JOIN_ROOM of "r" in a frame of protocol version 2
JoinVersion2Frame ==
    WireFrame(2, JOIN_ROOM, FLAG_UTF8_JSON, JsonBytes(RoomPayload(RoomR)))

RoomFrames ==
    {JoinFrame, JoinBlankFrame, JoinLongFrame, LeaveFrame,
     MessageFrame, JoinVersion2Frame}

\* a "data" event of connection c's socket that delivers the frame f whole
RoomData(c, f, full) ==
    /\ ~crashed /\ c \in Created /\ sock[c] = "open"
    /\ peerWrites < MaxRoomWrites
    /\ Step("data", c, [NoInput EXCEPT !.chunk = f], onSocketData(G, c, f, full))
    /\ peerWrites' = peerWrites + 1
    /\ UNCHANGED <<pending, calls>>

NextRooms ==
    \/ \E free \in BOOLEAN : Start(free)
    \/ Accept
    \/ \E c \in Conns, f \in RoomFrames : \E full \in SUBSET Conns : RoomData(c, f, full)
    \/ \E c \in Conns : SocketDrain(c)
    \/ \E c \in Conns : \E full \in SUBSET (Conns \ {c}) : SocketClose(c, full)

SpecRooms == Init /\ [][NextRooms]_vars

(***************************************************************************)
(* The server under bulk traffic                                           *)
(***************************************************************************)
\* the chunks a peer sends, bound to the maximum number of them in a run
MaxBulkWrites == 3

\* the four bytes of a length field that declares MAX_FRAME_SIZE + 1 bytes
OversizeHeader == BufferFrom(writeUInt32BE(MAX_FRAME_SIZE + 1))
\* MAX_FRAME_SIZE bytes of value 0
Filler == << <<0, MAX_FRAME_SIZE>> >>

BulkChunks == {OversizeHeader, Filler, HeartbeatFrame}

\* a "data" event of connection c's socket that delivers the chunk
BulkData(c, chunk, full) ==
    /\ ~crashed /\ c \in Created /\ sock[c] = "open"
    /\ peerWrites < MaxBulkWrites
    /\ Step("data", c, [NoInput EXCEPT !.chunk = chunk],
            onSocketData(G, c, chunk, full))
    /\ peerWrites' = peerWrites + 1
    /\ UNCHANGED <<pending, calls>>

NextBulk ==
    \/ \E free \in BOOLEAN : Start(free)
    \/ Accept
    \/ \E c \in Conns, chunk \in BulkChunks :
           \E full \in SUBSET {c} : BulkData(c, chunk, full)
    \/ \E c \in Conns : \E full \in SUBSET (Conns \ {c}) : SocketClose(c, full)
    \/ \E c \in Conns : Close(c)

SpecBulk == Init /\ [][NextBulk]_vars

(***************************************************************************)
(* The RoomManager on its own, over connections in any writable or         *)
(* closing state                                                           *)
(***************************************************************************)
\* the calls of the RoomManager in a run
MaxRoomCalls == 3

RoomNames == {RoomR, RoomQ}

\* the payloads broadcast: {} and a value JSON.stringify throws on
BroadcastPayloads == {JObj(<<>>), JBigInt}

\* roomManager.joinRoom(connection, roomName)
JoinRoom(c, roomName, full) ==
    /\ ~crashed /\ c \in Created /\ calls < MaxRoomCalls
    /\ Step("joinRoom", c, [NoInput EXCEPT !.room = roomName],
            joinRoom(G, c, roomName, full))
    /\ calls' = calls + 1
    /\ UNCHANGED <<pending, peerWrites>>

\* roomManager.leaveRoom(connectionId, roomName)
LeaveRoom(c, roomName, full) ==
    /\ ~crashed /\ c \in Created /\ calls < MaxRoomCalls
    /\ Step("leaveRoom", c, [NoInput EXCEPT !.room = roomName],
            leaveRoom(G, c, roomName, full))
    /\ calls' = calls + 1
    /\ UNCHANGED <<pending, peerWrites>>

\* roomManager.leaveAllRooms(connectionId)
LeaveAllRooms(c, full) ==
    /\ ~crashed /\ c \in Created /\ calls < MaxRoomCalls
    /\ Step("leaveAllRooms", c, NoInput, leaveAllRooms(G, c, full))
    /\ calls' = calls + 1
    /\ UNCHANGED <<pending, peerWrites>>

\* roomManager.broadcastToRoom(roomName, payload, excludeConnectionId); the
\* step is filed under the excluded connection, or the first when there is none
BroadcastToRoom(roomName, payload, exclude, full) ==
    /\ ~crashed /\ calls < MaxRoomCalls
    /\ Step("broadcastToRoom", IF exclude = NoConn THEN 1 ELSE exclude,
            [NoInput EXCEPT !.room = roomName, !.payload = payload,
                            !.exclude = exclude],
            broadcastToRoom(G, roomName, payload, exclude, full))
    /\ calls' = calls + 1
    /\ UNCHANGED <<pending, peerWrites>>

\* every connection exists, is OPEN, DRAINING or CLOSING, and has a socket
\* whose write throws or not; no room exists
InitRegistry ==
    /\ state \in [Conns -> {"OPEN", "DRAINING", "CLOSING"}]
    /\ recvBuffer = [c \in Conns |-> EmptyBuffer]
    /\ bytesSent = [c \in Conns |-> 0]
    /\ bytesReceived = [c \in Conns |-> 0]
    /\ connections = Conns
    /\ nextId = MaxConns + 1
    /\ listening = TRUE
    /\ rooms = <<>>
    /\ connectionRooms = <<>>
    /\ broken \in SUBSET Conns
    /\ crashed = FALSE
    /\ pending = [c \in Conns |-> EmptyBuffer]
    /\ peerWrites = 0
    /\ calls = 0
    /\ closeEvents = [c \in Conns |-> 0]
    /\ sock = [c \in Conns |-> "open"]
    /\ needDrain = [c \in Conns |-> state[c] = "DRAINING"]
    /\ last = [op |-> "init", conn |-> 1, pre |-> state[1], preSent |-> 0,
               preBuf |-> EmptyBuffer, preRooms |-> <<>>, preConnRooms |-> <<>>,
               input |-> NoInput, effects |-> <<>>, sends |-> <<>>, exc |-> ""]
    /\ codec = NoCodec

NextRegistry ==
    \/ \E c \in Conns, roomName \in RoomNames :
           \E full \in SUBSET Conns : JoinRoom(c, roomName, full)
    \/ \E c \in Conns, roomName \in RoomNames :
           \E full \in SUBSET Conns : LeaveRoom(c, roomName, full)
    \/ \E c \in Conns : \E full \in SUBSET Conns : LeaveAllRooms(c, full)
    \/ \E roomName \in RoomNames, payload \in BroadcastPayloads,
          exclude \in Conns \cup {NoConn} :
           \E full \in SUBSET Conns : BroadcastToRoom(roomName, payload, exclude, full)

SpecRegistry == InitRegistry /\ [][NextRegistry]_vars

(***************************************************************************)
(* A Connection on its own, in any of its states                           *)
(***************************************************************************)
\* a call of the private method transition(next) of connection c
Transition(c, next) ==
    /\ ~crashed /\ c \in Created
    /\ Step("transition", c, [NoInput EXCEPT !.next = next], transition(G, c, next))
    /\ UNCHANGED <<pending, peerWrites, calls>>

\* every connection exists and is in any state of the enum
InitUnit ==
    /\ state \in [Conns -> ConnectionState]
    /\ recvBuffer = [c \in Conns |-> EmptyBuffer]
    /\ bytesSent = [c \in Conns |-> 0]
    /\ bytesReceived = [c \in Conns |-> 0]
    /\ connections = {c \in Conns : state[c] \notin {"INIT", "CLOSED"}}
    /\ nextId = MaxConns + 1
    /\ listening = TRUE
    /\ rooms = <<>>
    /\ connectionRooms = <<>>
    /\ broken = {}
    /\ crashed = FALSE
    /\ pending = [c \in Conns |-> EmptyBuffer]
    /\ peerWrites = 0
    /\ calls = 0
    /\ closeEvents = [c \in Conns |-> IF state[c] = "CLOSED" THEN 1 ELSE 0]
    /\ sock = [c \in Conns |-> IF state[c] = "CLOSED" THEN "closed" ELSE "open"]
    /\ needDrain = [c \in Conns |-> state[c] = "DRAINING"]
    /\ last = [op |-> "init", conn |-> 1, pre |-> state[1], preSent |-> 0,
               preBuf |-> EmptyBuffer, preRooms |-> <<>>, preConnRooms |-> <<>>,
               input |-> NoInput, effects |-> <<>>, sends |-> <<>>, exc |-> ""]
    /\ codec = NoCodec

NextUnit ==
    \/ \E c \in Conns, next \in ConnectionState : Transition(c, next)
    \/ \E c \in Conns, type \in SendTypes, payload \in SendPayloads :
           \E full \in SUBSET {c} : Send(c, type, payload, full)

SpecUnit == InitUnit /\ [][NextUnit]_vars

(***************************************************************************)
(* The frame codec on its own: frames are encoded, their bytes are fed to  *)
(* extractFrame in chunks of any size, and they are decoded                *)
(***************************************************************************)
\* how many frames a caller encodes in a row
MaxFrames == 2

\* the bytes 00 ff, which are no JSON text
BinaryBytes == BufferFrom(<<0, 255>>)

\* the arguments of encodeFrame
CodecTypes == {HELLO, MESSAGE, HEARTBEAT}
CodecPayloads ==
    {JUndefined, JObj(<<>>), JObj(<< <<S_room, JStr(RoomR)>> >>),
     JBuf(BinaryBytes), JBuf(EmptyBuffer), JBuf(BufferFrom(<<123, 125>>))}
CodecFlags == {NoFlags, 0, FLAG_UTF8_JSON, FLAG_BINARY}

CodecInputs ==
    {[type |-> ty, payload |-> pl, flags |-> fl] :
        ty \in CodecTypes, pl \in CodecPayloads, fl \in CodecFlags}

\* the frames that are encoded in a row with others
RowInputs ==
    {[type |-> HELLO, payload |-> JObj(<<>>), flags |-> NoFlags],
     [type |-> MESSAGE, payload |-> JBuf(BinaryBytes), flags |-> NoFlags],
     [type |-> HEARTBEAT, payload |-> JUndefined, flags |-> NoFlags]}

\* the rows of frames a caller encodes
CodecRows ==
    {<<a>> : a \in CodecInputs}
    \cup UNION {[1..n -> RowInputs] : n \in 2..MaxFrames}

\* encodeFrame(type, payload, flags).buffer of an input
Encoded(input) == encodeFrame(input.type, input.payload, input.flags).buffer

RECURSIVE Wire(_)
\* Buffer.concat of the encoded frames of a row
Wire(row) ==
    IF row = <<>> THEN EmptyBuffer
    ELSE BufferConcat(Encoded(Head(row)), Wire(Tail(row)))

\* the caller's record after a call of extractFrame that gave r
extracted(cd, r) ==
    [cd EXCEPT !.result = r.status,
               !.acc = r.remaining,
               !.out = IF r.status = "frame" THEN Append(cd.out, r.frame) ELSE cd.out]

\* the next k bytes arrive: they are appended to the bytes kept and
\* extractFrame is called
CodecFeed(k) ==
    /\ codec.result # "throw"
    /\ k \in 1..BLen(codec.wire)
    /\ codec' = extracted([codec EXCEPT !.wire = BDrop(codec.wire, k),
                                        !.chunks = codec.chunks + 1],
                          extractFrame(BufferConcat(codec.acc, BTake(codec.wire, k))))
    /\ UNCHANGED serverVars

\* extractFrame has given a frame: it is called again on what remained
CodecExtract ==
    /\ codec.result = "frame"
    /\ codec' = extracted(codec, extractFrame(codec.acc))
    /\ UNCHANGED serverVars

\* decodeFrame is called on the next encoded frame, without its length field
CodecDecode ==
    /\ Len(codec.decoded) < Len(codec.inputs)
    /\ codec' = [codec EXCEPT !.decoded =
                     Append(codec.decoded,
                            decodeFrame(subarray(
                                Encoded(codec.inputs[Len(codec.decoded) + 1]), 4,
                                BLen(Encoded(codec.inputs[Len(codec.decoded) + 1])))))]
    /\ UNCHANGED serverVars

InitCodec ==
    /\ state = [c \in Conns |-> "INIT"]
    /\ recvBuffer = [c \in Conns |-> EmptyBuffer]
    /\ bytesSent = [c \in Conns |-> 0]
    /\ bytesReceived = [c \in Conns |-> 0]
    /\ connections = {}
    /\ nextId = 1
    /\ listening = FALSE
    /\ rooms = <<>>
    /\ connectionRooms = <<>>
    /\ broken = {}
    /\ crashed = FALSE
    /\ pending = [c \in Conns |-> EmptyBuffer]
    /\ peerWrites = 0
    /\ calls = 0
    /\ closeEvents = [c \in Conns |-> 0]
    /\ sock = [c \in Conns |-> "open"]
    /\ needDrain = [c \in Conns |-> FALSE]
    /\ last = [op |-> "init", conn |-> 1, pre |-> "INIT", preSent |-> 0,
               preBuf |-> EmptyBuffer, preRooms |-> <<>>, preConnRooms |-> <<>>,
               input |-> NoInput, effects |-> <<>>, sends |-> <<>>, exc |-> ""]
    /\ \E row \in CodecRows :
           /\ \A i \in DOMAIN row :
                  ~encodeFrame(row[i].type, row[i].payload, row[i].flags).threw
           /\ codec = [NoCodec EXCEPT !.inputs = row, !.wire = Wire(row)]

NextCodec ==
    \/ \E k \in 1..(MaxFrames * 32) : CodecFeed(k)
    \/ CodecExtract
    \/ CodecDecode

SpecCodec == InitCodec /\ [][NextCodec]_vars

(***************************************************************************)
(* Properties                                                              *)
(***************************************************************************)
\* the connection of the last step emitted the event in that step
Emitted(name) ==
    \E i \in DOMAIN last.effects :
        /\ last.effects[i].kind = "emit" /\ last.effects[i].name = name
        /\ last.effects[i].conn = last.conn

\* effect i of the last step is a write of a frame of the type to the socket
\* of the step's connection
WroteAt(i, type) ==
    /\ last.effects[i].kind = "write" /\ last.effects[i].num = type
    /\ last.effects[i].conn = last.conn

\* effect i of the last step is the step's connection entering the state
EnteredAt(i, s) ==
    /\ last.effects[i].kind = "emit" /\ last.effects[i].name = "state"
    /\ last.effects[i].arg = s /\ last.effects[i].conn = last.conn

\* what the receive buffer holds first once the chunk of the last "data"
\* event is appended to it
Arrived == extractFrame(BufferConcat(last.preBuf, last.input.chunk))

\* the transitions of the state machine
TransitionTable ==
    {<<"INIT", "OPEN">>, <<"OPEN", "DRAINING">>, <<"DRAINING", "OPEN">>,
     <<"OPEN", "CLOSING">>, <<"DRAINING", "CLOSING">>, <<"OPEN", "CLOSED">>,
     <<"DRAINING", "CLOSED">>, <<"CLOSING", "CLOSED">>}

\* C1: however a Connection is brought down (close() calls, the socket's
\* "error" and "close" events and fatal parse errors, in any order), it emits
\* "close" at most once, and it has emitted it exactly once from the moment
\* its socket's "close" event has been delivered.
CloseEmittedOnce ==
    \A c \in Conns :
        /\ closeEvents[c] <= 1
        /\ sock[c] = "closed" => closeEvents[c] = 1

\* the socket's "close" event delivered after close() and a socket error
CloseEmittedOnceWitness ==
    /\ last.op = "socketClose" /\ last.pre = "CLOSING"
    /\ sock[last.conn] = "closed" /\ closeEvents[last.conn] = 1

\* C2: "frame" and "heartbeat" events are emitted only in OPEN and DRAINING:
\* a "data" event that arrives while the state is CLOSING or CLOSED is
\* discarded and emits neither.
InboundOnlyWhenOpenOrDraining ==
    last.op = "data" /\ last.pre \notin {"OPEN", "DRAINING"}
        => ~Emitted("frame") /\ ~Emitted("heartbeat")

\* C3: every change of a Connection's state is a transition of the table;
\* in particular the state CLOSED never changes.
OnlyTableTransitions ==
    [][\A c \in Conns :
           state'[c] # state[c] => <<state[c], state'[c]>> \in TransitionTable]_vars

\* close() called on a connection that is CLOSED
OnlyTableTransitionsWitness ==
    last.op = "close" /\ last.pre = "CLOSED" /\ state[last.conn] = "CLOSED"

\* C4 as stated: transition(next) succeeds when (state, next) is in the table
\* and fails with an error, the state unchanged, for every other pair.
UntabledTransitionFails ==
    last.op = "transition"
        => IF <<last.pre, last.input.next>> \in TransitionTable
           THEN last.exc = "" /\ state[last.conn] = last.input.next
           ELSE last.exc = "InvalidTransition" /\ state[last.conn] = last.pre

\* C4 amended: transition(next) succeeds when (state, next) is in the table;
\* asked for the state the connection is in, it returns without error and
\* without effect; for every other pair it fails with an error and leaves
\* the state unchanged.
TransitionOutcome ==
    last.op = "transition"
        => CASE <<last.pre, last.input.next>> \in TransitionTable ->
                    last.exc = "" /\ state[last.conn] = last.input.next
             [] last.pre = last.input.next ->
                    /\ last.exc = "" /\ state[last.conn] = last.pre
                    /\ last.effects = <<>>
             [] OTHER ->
                    /\ last.exc = "InvalidTransition" /\ state[last.conn] = last.pre
                    /\ last.effects = <<>>

\* transition(OPEN) asked of a CLOSED connection has failed
TransitionOutcomeWitness ==
    /\ last.op = "transition" /\ last.pre = "CLOSED" /\ last.input.next = "OPEN"
    /\ last.exc = "InvalidTransition"

\* C5 as stated: send() called in INIT, CLOSING or CLOSED fails with a
\* NotWritableError raised to the caller.
SendRejectedWithError ==
    last.op = "send" /\ last.pre \in {"INIT", "CLOSING", "CLOSED"}
        => last.exc = "NotWritableError"

\* C5 amended: send() called in INIT, CLOSING or CLOSED is rejected by
\* returning: nothing is written, no error is raised to the caller and no
\* "error" event is emitted.
SendRejectedSilently ==
    last.op = "send" /\ last.pre \in {"INIT", "CLOSING", "CLOSED"}
        => /\ last.exc = "" /\ ~crashed
           /\ ~Emitted("error")
           /\ \A i \in DOMAIN last.effects : last.effects[i].kind # "write"

\* send() called on a CLOSING connection
SendRejectedSilentlyWitness ==
    last.op = "send" /\ last.pre = "CLOSING" /\ state[last.conn] = "CLOSING"

\* C6: send() called in INIT, CLOSING or CLOSED has no side effect: nothing
\* is written to the socket, no event is emitted, and bytesSent and the
\* state are what they were.
SendRejectedNoSideEffect ==
    last.op = "send" /\ last.pre \in {"INIT", "CLOSING", "CLOSED"}
        => /\ last.effects = <<>>
           /\ bytesSent[last.conn] = last.preSent
           /\ state[last.conn] = last.pre

\* send() of an encodable payload called on a connection in INIT
SendRejectedNoSideEffectWitness ==
    /\ last.op = "send" /\ last.pre = "INIT"
    /\ last.input.payload = JObj(<<>>)

\* C7: when socket.write returns false to a send() made in OPEN the
\* connection enters DRAINING; a "drain" event received in DRAINING moves it
\* to OPEN; a "drain" event received in any other state changes nothing.
BackpressureTransitions ==
    /\ \A i \in DOMAIN last.effects :
           (/\ last.pre = "OPEN"
            /\ last.effects[i].kind = "write" /\ last.effects[i].conn = last.conn
            /\ last.effects[i].num2 = 0
            /\ \A j \in 1..(i - 1) : last.effects[j].name # "state")
           => i + 1 \in DOMAIN last.effects /\ EnteredAt(i + 1, "DRAINING")
    /\ last.op = "send" /\ last.pre = "OPEN" /\ WriteRefused(last.effects, last.conn)
           => state[last.conn] = "DRAINING"
    /\ last.op = "drain" /\ last.pre = "DRAINING"
           => state[last.conn] = "OPEN" /\ ~crashed
    /\ last.op = "drain" /\ last.pre # "DRAINING"
           => /\ state[last.conn] = last.pre /\ last.effects = <<>> /\ ~crashed
              /\ bytesSent[last.conn] = last.preSent
              /\ recvBuffer[last.conn] = last.preBuf

\* a "drain" event, after a refused write, has reopened a DRAINING connection
BackpressureTransitionsWitness ==
    /\ last.op = "drain" /\ last.pre = "DRAINING" /\ state[last.conn] = "OPEN"
    /\ bytesSent[last.conn] > 0

\* C8: in DRAINING the frames that arrive are parsed and emitted, every
\* send() is written to the socket, and the state is left only by a "drain"
\* event, to OPEN, or by a close, to CLOSING or CLOSED.
DrainingStillWorks ==
    /\ (/\ last.op = "data" /\ last.pre = "DRAINING"
        /\ Arrived.status = "frame" /\ decodePayload(Arrived.frame).ok)
           => /\ last.effects # <<>>
              /\ last.effects[1].kind = "emit"
              /\ last.effects[1].conn = last.conn
              /\ last.effects[1].name =
                     (IF Arrived.frame.type = HEARTBEAT THEN "heartbeat" ELSE "frame")
              /\ last.effects[1].num = Arrived.frame.type
    /\ (/\ last.op = "send" /\ last.pre = "DRAINING"
        /\ ~encodeFrame(last.input.type, last.input.payload, NoFlags).threw)
           => /\ Len(last.effects) = 1
              /\ WroteAt(1, last.input.type)
              /\ last.effects[1].buf =
                     encodeFrame(last.input.type, last.input.payload, NoFlags).buffer
              /\ bytesSent[last.conn] = last.preSent + BLen(last.effects[1].buf)
    /\ last.pre = "DRAINING" /\ state[last.conn] # "DRAINING"
           => \/ last.op = "drain" /\ state[last.conn] = "OPEN"
              \/ state[last.conn] \in {"CLOSING", "CLOSED"}

\* a HELLO frame has arrived on a DRAINING connection and has been emitted
DrainingStillWorksWitness ==
    /\ last.op = "data" /\ last.pre = "DRAINING"
    /\ Arrived.status = "frame" /\ Arrived.frame.type = HELLO
    /\ Emitted("frame")

\* C9: when a frame flagged UTF8_JSON arrives whose payload is not valid JSON,
\* the server writes an ERROR frame to that socket and then closes the
\* connection.
InvalidJsonAnsweredWithError ==
    (/\ last.op = "data" /\ last.pre \in {"OPEN", "DRAINING"}
     /\ Arrived.status = "frame"
     /\ HasFlag(Arrived.frame.flags, FLAG_UTF8_JSON)
     /\ ~decodePayload(Arrived.frame).ok)
        => /\ \E i, j \in DOMAIN last.effects :
                  i < j /\ WroteAt(i, ERROR) /\ EnteredAt(j, "CLOSING")
           /\ state[last.conn] \in {"CLOSING", "CLOSED"}

\* C10: a frame whose type is none of 1..6 is passed to no handler, and the
\* server writes an ERROR frame to that socket and then closes the
\* connection.
UnknownTypeAnsweredAndClosed ==
    (/\ last.op = "data" /\ last.pre \in {"OPEN", "DRAINING"}
     /\ Arrived.status = "frame"
     /\ Arrived.frame.type \notin HELLO..ERROR
     /\ decodePayload(Arrived.frame).ok)
        => /\ \A i \in DOMAIN last.effects : last.effects[i].kind # "call"
           /\ \E i, j \in DOMAIN last.effects :
                  i < j /\ WroteAt(i, ERROR) /\ EnteredAt(j, "CLOSING")
           /\ state[last.conn] \in {"CLOSING", "CLOSED"}

\* the bytes of the receive buffer once the chunk of the last "data" event is
\* appended to it
Received == BufferConcat(last.preBuf, last.input.chunk)

\* the connection of the last step emitted "error" of the type, fatal, in
\* that step
EmittedFatal(type) ==
    \E i \in DOMAIN last.effects :
        /\ last.effects[i].kind = "emit" /\ last.effects[i].name = "error"
        /\ last.effects[i].arg = type /\ last.effects[i].num = 1
        /\ last.effects[i].conn = last.conn

\* C11: a frame whose version is not 1 reaches no message handler (no join,
\* leave or broadcast comes of it); the server answers it with an ERROR frame
\* and closes the connection.
UnsupportedVersionRejected ==
    (/\ last.op = "data" /\ last.pre \in {"OPEN", "DRAINING"}
     /\ Arrived.status = "frame"
     /\ Arrived.frame.version # PROTOCOL_VERSION)
        => /\ \A i \in DOMAIN last.effects : last.effects[i].kind # "call"
           /\ rooms = last.preRooms
           /\ \E i, j \in DOMAIN last.effects :
                  i < j /\ WroteAt(i, ERROR) /\ EnteredAt(j, "CLOSING")
           /\ state[last.conn] \in {"CLOSING", "CLOSED"}

\* C12: a length field of zero, or of less than the three bytes of version,
\* type and flags, is a protocol violation: a protocol error is reported and
\* the connection is closed, no frame is extracted, and the handler of the
\* "data" event lets no exception escape.
ShortLengthIsProtocolError ==
    (/\ last.op = "data" /\ last.pre \in {"OPEN", "DRAINING"}
     /\ BLen(Received) >= 4
     /\ readUInt32BE(Received) < HEADER_SIZE - 4)
        => /\ last.exc = "" /\ ~crashed
           /\ EmittedFatal("protocol")
           /\ ~Emitted("frame") /\ ~Emitted("heartbeat")
           /\ state[last.conn] \in {"CLOSING", "CLOSED"}

\* C13: a length field that declares more than MAX_FRAME_SIZE bytes brings a
\* protocol error and the close of the connection at once; the parser does
\* not wait for the rest of such a frame.
OversizeLengthRejected ==
    (/\ last.op = "data" /\ last.pre \in {"OPEN", "DRAINING"}
     /\ BLen(Received) >= 4
     /\ readUInt32BE(Received) > MAX_FRAME_SIZE)
        => /\ EmittedFatal("protocol")
           /\ state[last.conn] \in {"CLOSING", "CLOSED"}

\* C14: the "data" event that takes the receive buffer past MAX_FRAME_SIZE
\* reports a fatal protocol error and takes the connection out of OPEN and
\* DRAINING, and the buffer grows no further after that.
BufferBoundedByMaxFrameSize ==
    /\ (/\ last.op = "data" /\ last.pre \in {"OPEN", "DRAINING"}
        /\ BLen(last.preBuf) <= MAX_FRAME_SIZE
        /\ BLen(Received) > MAX_FRAME_SIZE)
           => /\ EmittedFatal("protocol")
              /\ state[last.conn] \notin {"OPEN", "DRAINING"}
    /\ (last.op = "data" /\ BLen(last.preBuf) > MAX_FRAME_SIZE)
           => BLen(recvBuffer[last.conn]) <= BLen(last.preBuf)

\* connection c was a member of the room before the last step
WasMember(roomName, c) ==
    /\ roomName \in DOMAIN last.preRooms
    /\ \E i \in DOMAIN last.preRooms[roomName] : last.preRooms[roomName][i] = c

\* the last step delivered, to a connection that is OPEN or DRAINING and has
\* nothing buffered, one frame that asks what the application refuses:
\* MESSAGE to a room that does not exist or that the sender has not joined,
\* or JOIN_ROOM with a name of no or of more than 64 characters
ApplicationError ==
    /\ last.op = "data" /\ last.pre \in {"OPEN", "DRAINING"}
    /\ last.preBuf = EmptyBuffer
    /\ \/ last.input.chunk = MessageFrame /\ ~WasMember(RoomR, last.conn)
       \/ last.input.chunk \in {JoinBlankFrame, JoinLongFrame}

\* C15: a MESSAGE that names a room that does not exist or that the sender
\* has not joined, and a JOIN_ROOM whose name has no or more than 64
\* characters, bring one ERROR frame, written to the sender only: nothing is
\* broadcast, no membership changes, and the sender's connection is not
\* closed but stays OPEN or DRAINING.
ApplicationErrorAnswered ==
    ApplicationError
        => /\ \E i \in DOMAIN last.effects : WroteAt(i, ERROR)
           /\ \A i, j \in DOMAIN last.effects :
                  (last.effects[i].kind = "write" /\ last.effects[j].kind = "write")
                      => i = j /\ WroteAt(i, ERROR)
           /\ rooms = last.preRooms
           /\ connectionRooms = last.preConnRooms
           /\ \A i \in DOMAIN last.effects : last.effects[i].kind # "end"
           /\ state[last.conn] \in {"OPEN", "DRAINING"}
           /\ last.exc = ""

\* a connection has sent MESSAGE to a room it has not joined and that has a
\* member, and ERROR has been written to it
ApplicationErrorAnsweredWitness ==
    /\ ApplicationError
    /\ last.input.chunk = MessageFrame
    /\ RoomR \in DOMAIN last.preRooms
    /\ \E i \in DOMAIN last.effects : WroteAt(i, ERROR)

\* the last step wrote to the socket of connection m a MESSAGE frame that
\* carries the payload
Delivered(m, payload) ==
    \E i \in DOMAIN last.effects :
        /\ last.effects[i].kind = "write" /\ last.effects[i].conn = m
        /\ last.effects[i].num = MESSAGE
        /\ last.effects[i].buf = encodeFrame(MESSAGE, payload, NoFlags).buffer

\* in the last step the send to connection m failed and was reported by its
\* "error" event, not fatal
SendFailed(m) ==
    \E i \in DOMAIN last.effects :
        /\ last.effects[i].kind = "emit" /\ last.effects[i].name = "error"
        /\ last.effects[i].conn = m /\ last.effects[i].arg = "transport"
        /\ last.effects[i].num = 0

\* the members of the room before the last step that can be written to and
\* that the last step does not exclude
Recipients ==
    {last.preRooms[last.input.room][i] : i \in DOMAIN last.preRooms[last.input.room]}
        \cap {m \in Conns : m # last.input.exclude /\ state[m] \in {"OPEN", "DRAINING"}}

\* C16: in a broadcast, a send that fails for one member does not end the
\* loop and does not reach the caller of the broadcast: every other member
\* that is not excluded still has the payload written to it.
BroadcastSurvivesFailingSend ==
    (last.op = "broadcastToRoom" /\ last.input.room \in DOMAIN last.preRooms)
        => /\ last.exc = "" /\ ~crashed
           /\ \A m \in Recipients :
                  IF m \in broken \/ ~Serializable(last.input.payload)
                  THEN SendFailed(m) /\ ~Delivered(m, last.input.payload)
                  ELSE Delivered(m, last.input.payload)

\* a broadcast has gone to a room whose first member has a socket whose
\* write throws, and a later member has had the payload written to it
BroadcastSurvivesFailingSendWitness ==
    /\ last.op = "broadcastToRoom" /\ last.input.room \in DOMAIN last.preRooms
    /\ \E i, j \in DOMAIN last.preRooms[last.input.room] :
           /\ i < j
           /\ last.preRooms[last.input.room][i] \in Recipients \cap broken
           /\ last.preRooms[last.input.room][j] \in Recipients \ broken
           /\ SendFailed(last.preRooms[last.input.room][i])
           /\ Delivered(last.preRooms[last.input.room][j], last.input.payload)

\* C18: a join of a connection that is a member of the room already changes
\* neither the members of the room, their number and order, nor the rooms of
\* the connection, and no notification is sent to anyone.
JoinIsIdempotent ==
    (last.op = "joinRoom" /\ WasMember(last.input.room, last.conn))
        => /\ rooms = last.preRooms
           /\ connectionRooms = last.preConnRooms
           /\ last.effects = <<>>
           /\ last.exc = ""

\* a member of a room that has another member that can be written to has
\* joined it again
JoinIsIdempotentWitness ==
    /\ last.op = "joinRoom" /\ WasMember(last.input.room, last.conn)
    /\ \E m \in Conns \ {last.conn} :
           /\ WasMember(last.input.room, m)
           /\ state[m] \in {"OPEN", "DRAINING"} /\ m \notin broken
    /\ rooms = last.preRooms

\* C19: a leave of a connection that is no member of the room, be it that
\* the room does not exist or that the connection never joined it, raises no
\* error, changes no membership, deletes no room that has members and sends
\* no notification.
LeaveOfNonMemberIsNoOp ==
    (last.op = "leaveRoom" /\ ~WasMember(last.input.room, last.conn))
        => /\ last.exc = "" /\ ~crashed
           /\ rooms = last.preRooms
           /\ connectionRooms = last.preConnRooms
           /\ last.effects = <<>>

\* a connection has left a room that exists, has a member that can be
\* written to, and that it had not joined
LeaveOfNonMemberIsNoOpWitness ==
    /\ last.op = "leaveRoom" /\ ~WasMember(last.input.room, last.conn)
    /\ last.input.room \in DOMAIN last.preRooms
    /\ \E m \in Conns \ {last.conn} :
           /\ WasMember(last.input.room, m)
           /\ state[m] \in {"OPEN", "DRAINING"} /\ m \notin broken
    /\ last.input.room \in DOMAIN rooms

\* C20: after any calls of joinRoom, leaveRoom, leaveAllRooms and
\* broadcastToRoom no room of the registry is without members: a room exists
\* from the first join on, until the leave that removes its last member, and
\* getRoom returns none for it from then on.
NoEmptyRoom ==
    /\ \A r \in DOMAIN rooms : rooms[r] # <<>>
    /\ \A r \in RoomNames :
           getRoom(G, r) <=> \E c \in DOMAIN connectionRooms :
                                \E i \in DOMAIN connectionRooms[c] :
                                    connectionRooms[c][i] = r
    /\ (last.op = "joinRoom" /\ last.exc = "")
           => getRoom(G, last.input.room) /\ hasMember(G, last.input.room, last.conn)
    /\ \A r \in DOMAIN last.preRooms :
           ~getRoom(G, r)
               => /\ last.op \in {"leaveRoom", "leaveAllRooms"}
                  /\ last.preRooms[r] = <<last.conn>>
    /\ \A r \in DOMAIN rooms :
           r \notin DOMAIN last.preRooms
               => last.op = "joinRoom" /\ last.input.room = r

\* the only member of a room has left it and the room is gone
NoEmptyRoomWitness ==
    /\ last.op = "leaveRoom" /\ last.input.room \in DOMAIN last.preRooms
    /\ last.preRooms[last.input.room] = <<last.conn>>
    /\ ~getRoom(G, last.input.room)

\* C17: what fails on one connection (malformed input, a protocol error, a
\* transport error, a close that is forced) changes neither the state nor
\* the receive buffer of another connection, and the events of the other
\* connections are still processed afterwards.
FailureStaysOnItsConnection ==
    [][last'.op \in {"data", "socketError", "socketClose", "close"}
           => \A x \in Created \ {last'.conn} :
                  /\ state'[x] = state[x]
                  /\ recvBuffer'[x] = recvBuffer[x]
                  /\ sock[x] # "closed" => ~crashed']_vars

\* the calls send(MESSAGE, payload) that go, one each and in this order, to
\* the connections of the sequence
OneEach(members, payload) ==
    [i \in 1..Len(members) |->
        [conn |-> members[i], type |-> MESSAGE, payload |-> payload]]

\* the members of the room before the last step, none when it did not exist
MembersBefore(roomName) ==
    IF roomName \in DOMAIN last.preRooms THEN last.preRooms[roomName] ELSE <<>>

\* how many calls of send() the last step made to connection m
SendsTo(m) == Cardinality({i \in DOMAIN last.sends : last.sends[i].conn = m})

\* C21: when a join adds a member, send() is called exactly once for every
\* connection that was a member of the room before, with the userJoined
\* notification, and not at all for the joiner.
JoinNotifiesTheOthers ==
    (last.op = "joinRoom" /\ ~WasMember(last.input.room, last.conn))
        => /\ last.exc = ""
           /\ last.sends = OneEach(MembersBefore(last.input.room),
                                   Notification(S_userJoined, last.input.room,
                                                last.conn))
           /\ SendsTo(last.conn) = 0
           /\ \A m \in Conns :
                  WasMember(last.input.room, m) => SendsTo(m) = 1
           /\ \A m \in Conns :
                  (/\ WasMember(last.input.room, m)
                   /\ state[m] \in {"OPEN", "DRAINING"} /\ m \notin broken)
                      => Delivered(m, Notification(S_userJoined, last.input.room,
                                                  last.conn))

\* a connection has joined a room that had a member, and that member has had
\* the notification written to its socket
JoinNotifiesTheOthersWitness ==
    /\ last.op = "joinRoom" /\ ~WasMember(last.input.room, last.conn)
    /\ \E m \in Conns :
           /\ WasMember(last.input.room, m)
           /\ Delivered(m, Notification(S_userJoined, last.input.room, last.conn))
    /\ hasMember(G, last.input.room, last.conn)

\* C22: when a leave removes a member, send() is called exactly once for
\* every member that remains in the room, with the userLeft notification, and
\* not at all for the connection that left.
LeaveNotifiesTheRest ==
    (last.op = "leaveRoom" /\ WasMember(last.input.room, last.conn))
        => /\ last.exc = ""
           /\ last.sends = OneEach(Remove(last.preRooms[last.input.room], last.conn),
                                   Notification(S_userLeft, last.input.room,
                                                last.conn))
           /\ SendsTo(last.conn) = 0
           /\ \A m \in Conns \ {last.conn} :
                  WasMember(last.input.room, m) => SendsTo(m) = 1
           /\ \A m \in Conns \ {last.conn} :
                  (/\ WasMember(last.input.room, m)
                   /\ state[m] \in {"OPEN", "DRAINING"} /\ m \notin broken)
                      => Delivered(m, Notification(S_userLeft, last.input.room,
                                                  last.conn))

\* a member has left a room in which another member remains, and that member
\* has had the notification written to its socket
LeaveNotifiesTheRestWitness ==
    /\ last.op = "leaveRoom" /\ WasMember(last.input.room, last.conn)
    /\ \E m \in Conns \ {last.conn} :
           /\ WasMember(last.input.room, m)
           /\ Delivered(m, Notification(S_userLeft, last.input.room, last.conn))
    /\ ~hasMember(G, last.input.room, last.conn)

\* C23: a broadcast calls send() exactly once for every member of the room
\* but the excluded one, for no connection outside the room and not for the
\* excluded one; a broadcast to a room that does not exist sends nothing.
BroadcastCallsSendOncePerMember ==
    last.op = "broadcastToRoom"
        => /\ last.sends = OneEach(Remove(MembersBefore(last.input.room),
                                          last.input.exclude),
                                   last.input.payload)
           /\ \A m \in Conns :
                  SendsTo(m) = IF WasMember(last.input.room, m)
                                  /\ m # last.input.exclude THEN 1 ELSE 0
           /\ last.input.room \notin DOMAIN last.preRooms
                  => last.sends = <<>> /\ last.effects = <<>>
           /\ rooms = last.preRooms

\* a broadcast that excludes a member has gone to a room with another member
BroadcastCallsSendOncePerMemberWitness ==
    /\ last.op = "broadcastToRoom"
    /\ WasMember(last.input.room, last.input.exclude)
    /\ \E m \in Conns \ {last.input.exclude} :
           WasMember(last.input.room, m) /\ SendsTo(m) = 1

\* C24: when leaveAllRooms(connectionId) has returned, the connection is a
\* member of no room and has no entry in connectionRooms, every room of which
\* it was the last member is deleted, and the memberships of the other
\* connections are what they were.
LeaveAllLeavesEveryRoom ==
    last.op = "leaveAllRooms"
        => /\ last.exc = ""
           /\ last.conn \notin DOMAIN connectionRooms
           /\ \A r \in DOMAIN rooms : ~hasMember(G, r, last.conn)
           /\ \A r \in DOMAIN last.preRooms :
                  IF Remove(last.preRooms[r], last.conn) = <<>>
                  THEN ~getRoom(G, r)
                  ELSE getRoom(G, r)
                       /\ rooms[r] = Remove(last.preRooms[r], last.conn)
           /\ DOMAIN rooms \subseteq DOMAIN last.preRooms
           /\ DOMAIN connectionRooms = DOMAIN last.preConnRooms \ {last.conn}
           /\ \A m \in DOMAIN connectionRooms :
                  connectionRooms[m] = last.preConnRooms[m]

\* a connection that was the only member of two rooms has left all rooms
LeaveAllLeavesEveryRoomWitness ==
    /\ last.op = "leaveAllRooms"
    /\ last.conn \in DOMAIN last.preConnRooms
    /\ Len(last.preConnRooms[last.conn]) = 2
    /\ rooms = <<>> /\ connectionRooms = <<>>

\* the positions among the effects of the last step at which the server
\* calls roomManager.leaveAllRooms(x)
LeaveAllCalls(x) ==
    {i \in DOMAIN last.effects :
        /\ last.effects[i].kind = "call"
        /\ last.effects[i].name = "leaveAllRooms"
        /\ last.effects[i].conn = x}

\* C25: the server calls leaveAllRooms for a connection only in the step of
\* the socket's "close" event, right after the connection has emitted
\* "close" and as often as it has; a connection emits "close" at most once,
\* and has emitted it once when its socket is closed.
LeaveAllCalledOnceAtClose ==
    \A x \in Conns :
        /\ Cardinality(LeaveAllCalls(x)) = CloseEmits(last.effects, x)
        /\ \A i \in LeaveAllCalls(x) :
               /\ last.op = "socketClose" /\ last.conn = x
               /\ i > 1
               /\ last.effects[i - 1].kind = "emit"
               /\ last.effects[i - 1].name = "close"
               /\ last.effects[i - 1].conn = x
        /\ closeEvents[x] <= 1
        /\ (x \in Created /\ sock[x] = "closed") => closeEvents[x] = 1
        /\ closeEvents[x] = 1 => x \in Created /\ state[x] = "CLOSED"

\* the socket of a connection that close() had put in CLOSING has closed,
\* and the server has called leaveAllRooms for it
LeaveAllCalledOnceAtCloseWitness ==
    /\ last.op = "socketClose" /\ last.pre = "CLOSING"
    /\ Cardinality(LeaveAllCalls(last.conn)) = 1
    /\ closeEvents[last.conn] = 1

\* the connection numbers that createConnection has given out so far
Issued == {c \in Conns : state[c] # "INIT"}

\* C26: createConnection gives every connection an id that no connection
\* has had before, open or closed: the ids given out are as many as the
\* connections created, and the id of a new connection was never in use.
ConnectionIdsNeverReused ==
    /\ Cardinality(Issued) = nextId - 1
    /\ connections \subseteq Issued
    /\ last.op = "accept"
           => /\ last.exc = ""
              /\ last.pre = "INIT"
              /\ closeEvents[last.conn] = 0
              /\ state[last.conn] = "OPEN"
              /\ last.conn \in connections
              /\ Emitted("open")

\* a connection has been created after another one has closed and left the
\* registry
ConnectionIdsNeverReusedWitness ==
    /\ last.op = "accept"
    /\ \E c \in Issued \ {last.conn} :
           closeEvents[c] = 1 /\ c \notin connections
    /\ Cardinality(Issued) = 2

\* the frames that parse() emits in the last step as "frame" or "heartbeat",
\* in the order of the events
EmittedFrames ==
    LET events == SelectSeq(last.effects,
                      LAMBDA e : /\ e.kind = "emit" /\ e.conn = last.conn
                                 /\ e.name \in {"frame", "heartbeat"})
    IN  [i \in DOMAIN events |->
            [type |-> events[i].num, flags |-> events[i].num2,
             payload |-> events[i].buf]]

RECURSIVE FramesIn(_)
\* the frames that lie in the bytes, one after the other from the first byte
\* on, as far as they are complete
FramesIn(bytes) ==
    LET first == extractFrame(bytes)
    IN  IF first.status # "frame" THEN <<>>
        ELSE <<[type |-> first.frame.type, flags |-> first.frame.flags,
                payload |-> first.frame.payload]>>
             \o FramesIn(first.remaining)

RECURSIVE After(_, _)
\* the bytes that follow the first n frames
After(bytes, n) ==
    IF n = 0 THEN bytes ELSE After(extractFrame(bytes).remaining, n - 1)

\* C27: the frames a "data" event makes a connection emit are the first
\* frames of the bytes received and not yet consumed, in the order of the
\* bytes: all complete frames when nothing is wrong with them, and what
\* follows the frames consumed stays in recvBuffer for the next "data" event,
\* so that no frame is emitted twice or skipped, however the bytes are cut
\* into chunks.
FramesEmittedInArrivalOrder ==
    (last.op = "data" /\ last.pre # "CLOSED"
     /\ BLen(Received) <= MAX_FRAME_SIZE)
        => /\ Len(EmittedFrames) <= Len(FramesIn(Received))
           /\ EmittedFrames = SubSeq(FramesIn(Received), 1, Len(EmittedFrames))
           /\ (last.exc = "" /\ ~EmittedFatal("protocol"))
                  => /\ EmittedFrames = FramesIn(Received)
                     /\ recvBuffer[last.conn] = After(Received, Len(EmittedFrames))
           /\ (last.exc = "" /\ EmittedFatal("protocol"))
                  => recvBuffer[last.conn] = After(Received, Len(EmittedFrames) + 1)

\* the second chunk of a write has completed the frame the first chunk began
\* and brought another frame whole: both are emitted, in this order
FramesEmittedInArrivalOrderWitness ==
    /\ last.op = "data" /\ last.preBuf # EmptyBuffer
    /\ Len(EmittedFrames) = 2
    /\ EmittedFrames[1].type = HELLO /\ EmittedFrames[2].type = 7
    /\ recvBuffer[last.conn] = EmptyBuffer

\* the frame extractFrame gives for the encoded frame of an input on its own
Unsplit(input) == extractFrame(Encoded(input))

\* the frame carries what was encoded: the version, the type and, for a
\* payload of bytes, these bytes
Carries(frame, input) ==
    /\ frame.version = PROTOCOL_VERSION
    /\ frame.type = input.type
    /\ frame.length = 3 + BLen(frame.payload)
    /\ input.payload.t = "buffer" => frame.payload = input.payload.s
    /\ input.payload.t = "undefined" => frame.payload = EmptyBuffer

\* C28: when the bytes of one encoded frame arrive in chunks of any sizes
\* and extractFrame is called on the bytes gathered after each chunk, it
\* returns null until the last byte is there, and then the frame it returns
\* for the unsplit bytes, with nothing remaining.
FragmentationInvariance ==
    (Len(codec.inputs) = 1 /\ codec.chunks > 0)
        => /\ Unsplit(codec.inputs[1]).status = "frame"
           /\ Unsplit(codec.inputs[1]).remaining = EmptyBuffer
           /\ Carries(Unsplit(codec.inputs[1]).frame, codec.inputs[1])
           /\ codec.wire # EmptyBuffer
                  => /\ codec.result = "null"
                     /\ codec.out = <<>>
                     /\ BufferConcat(codec.acc, codec.wire) = Encoded(codec.inputs[1])
           /\ codec.wire = EmptyBuffer
                  => /\ codec.result \in {"frame", "null"}
                     /\ codec.out = <<Unsplit(codec.inputs[1]).frame>>
                     /\ codec.acc = EmptyBuffer

\* a frame with a payload has arrived one byte at a time and has been
\* extracted
FragmentationInvarianceWitness ==
    /\ Len(codec.inputs) = 1
    /\ codec.chunks = BLen(Encoded(codec.inputs[1]))
    /\ codec.chunks > HEADER_SIZE
    /\ codec.wire = EmptyBuffer
    /\ codec.result = "frame"
    /\ Len(codec.out) = 1

\* C29: when the encoded frames of a row arrive as one chunk and
\* extractFrame is called again and again on what remains until it returns
\* null, it returns as many frames as were encoded, in their order and each
\* the frame of its encoded bytes, and nothing remains.
CoalescedFramesExtractedInOrder ==
    (codec.chunks = 1 /\ codec.wire = EmptyBuffer)
        => /\ codec.result \in {"frame", "null"}
           /\ Len(codec.out) <= Len(codec.inputs)
           /\ \A i \in DOMAIN codec.out :
                  /\ codec.out[i] = Unsplit(codec.inputs[i]).frame
                  /\ Carries(codec.out[i], codec.inputs[i])
           /\ codec.acc = Wire(SubSeq(codec.inputs, Len(codec.out) + 1,
                                      Len(codec.inputs)))
           /\ codec.result = "null"
                  => Len(codec.out) = Len(codec.inputs) /\ codec.acc = EmptyBuffer

\* a row of MaxFrames frames has arrived in one chunk and extractFrame has
\* been called until it returned null
CoalescedFramesExtractedInOrderWitness ==
    /\ codec.chunks = 1 /\ codec.wire = EmptyBuffer
    /\ Len(codec.inputs) = MaxFrames
    /\ codec.result = "null"
    /\ Len(codec.out) = MaxFrames
    /\ codec.out[1] # codec.out[2]

\* the flag encodeFrame sets by itself for the payload
AutoDetected(payload) ==
    IF payload.t \in {"undefined", "null"} THEN 0
    ELSE IF payload.t = "buffer" THEN FLAG_BINARY
    ELSE FLAG_UTF8_JSON

\* C30: decodeFrame of what encodeFrame(type, payload, flags) has encoded
\* returns the type, a payload equal to the one encoded (null for none) and
\* the flags passed, the flag set for the payload, or both.
RoundTrip ==
    \A i \in DOMAIN codec.decoded :
        /\ ~codec.decoded[i].threw
        /\ codec.decoded[i].type = codec.inputs[i].type
        /\ codec.decoded[i].payload =
               IF codec.inputs[i].payload.t = "undefined" THEN JNull
               ELSE codec.inputs[i].payload
        /\ codec.decoded[i].flags \in
               {AutoDetected(codec.inputs[i].payload)}
               \cup (IF codec.inputs[i].flags = NoFlags THEN {}
                     ELSE {codec.inputs[i].flags,
                           IF AutoDetected(codec.inputs[i].payload) = 0
                           THEN codec.inputs[i].flags
                           ELSE OrFlag(codec.inputs[i].flags,
                                       AutoDetected(codec.inputs[i].payload))})

\* C31: the flags byte of an encoded frame is the flag encodeFrame detects
\* for the payload when no flags are passed, and the flags passed, as they
\* are, when flags are passed.
ExplicitFlagsWrittenAsGiven ==
    \A i \in DOMAIN codec.out :
        codec.out[i].flags =
            IF codec.inputs[i].flags = NoFlags
            THEN AutoDetected(codec.inputs[i].payload)
            ELSE codec.inputs[i].flags

\* the payload the server broadcasts for MessageFrame when it comes from
\* connection c
Relayed(c) ==
    JObj(<< <<S_room, JStr(RoomR)>>, <<S_from, JStr(ConnectionId(c))>>,
            <<S_content, JNum(1)>>, <<S_timestamp, JNum(Now)>> >>)

\* the writes of MESSAGE frames to the socket of connection m in the last step
MessageWrites(m) ==
    {i \in DOMAIN last.effects :
        /\ last.effects[i].kind = "write" /\ last.effects[i].conn = m
        /\ last.effects[i].num = MESSAGE}

\* the last step delivered MessageFrame, whole, from a member of the room "r"
MessageFromMember ==
    /\ last.op = "data" /\ last.pre # "CLOSED"
    /\ last.preBuf = EmptyBuffer /\ last.input.chunk = MessageFrame
    /\ WasMember(RoomR, last.conn)

\* C32: when a member of a room sends MESSAGE {room, content} to it, every
\* other member that is OPEN or DRAINING has exactly one MESSAGE frame
\* written to it, which carries the content, and a connection that is no
\* member of the room has none.
MessageReachesOtherMembers ==
    MessageFromMember
        => /\ last.exc = ""
           /\ \A b \in Conns \ {last.conn} :
                  IF WasMember(RoomR, b)
                  THEN state[b] \in {"OPEN", "DRAINING"}
                          => /\ Cardinality(MessageWrites(b)) = 1
                             /\ Delivered(b, Relayed(last.conn))
                  ELSE MessageWrites(b) = {}

\* A and B have joined the room, A has sent MESSAGE and B has had it written
MessageReachesOtherMembersWitness ==
    /\ MessageFromMember
    /\ \E b \in Conns \ {last.conn} :
           WasMember(RoomR, b) /\ Delivered(b, Relayed(last.conn))

\* C33: when a member of a room sends MESSAGE to it, the server writes the
\* message to all members of the room that are OPEN or DRAINING, the sender
\* among them.
MessageReachesSenderToo ==
    MessageFromMember
        => \A m \in Conns :
               (WasMember(RoomR, m) /\ state[m] \in {"OPEN", "DRAINING"})
                   => Delivered(m, Relayed(last.conn))

\* C34: a HEARTBEAT frame that arrives on a connection that is OPEN or
\* DRAINING is answered in the same step: a HEARTBEAT frame is written to
\* the socket of that connection.
HeartbeatEchoed ==
    (/\ last.op = "data" /\ last.pre \in {"OPEN", "DRAINING"}
     /\ last.preBuf = EmptyBuffer /\ last.input.chunk = HeartbeatFrame)
        => /\ Emitted("heartbeat")
           /\ \E i \in DOMAIN last.effects : WroteAt(i, HEARTBEAT)

\* room name r is in the set that connectionRooms holds for connection c
Tracked(c, r) ==
    /\ c \in DOMAIN connectionRooms
    /\ \E i \in DOMAIN connectionRooms[c] : connectionRooms[c][i] = r

\* C35: connectionRooms agrees with rooms: a room name is in the set of a
\* connection exactly when the room exists and the connection is a member
\* of it, and no connection has an empty set stored.
ReverseIndexAgrees ==
    /\ \A c \in DOMAIN connectionRooms : connectionRooms[c] # <<>>
    /\ DOMAIN connectionRooms \subseteq Conns
    /\ DOMAIN rooms \subseteq RoomNames
    /\ \A c \in Conns : \A r \in RoomNames :
           Tracked(c, r) <=> (getRoom(G, r) /\ hasMember(G, r, c))

\* a connection has left its only room, in which another connection stays:
\* its set is gone and the room is not
ReverseIndexAgreesWitness ==
    /\ last.op = "leaveRoom" /\ WasMember(last.input.room, last.conn)
    /\ last.conn \notin DOMAIN connectionRooms
    /\ getRoom(G, last.input.room)
    /\ ~Tracked(last.conn, last.input.room)

\* connection c has emitted "close" and its listeners have run
Closed(c) == c \in Created /\ closeEvents[c] = 1

\* C36: a connection whose "close" event has been handled is a member of no
\* room and has no entry in connectionRooms, in that state and in every
\* later one; when all connections created have closed, there is no room.
ClosedConnectionsLeaveNoMembership ==
    /\ \A c \in Conns :
           Closed(c)
               => /\ c \notin DOMAIN connectionRooms
                  /\ \A r \in DOMAIN rooms : ~hasMember(G, r, c)
    /\ (Created # {} /\ \A c \in Created : Closed(c))
           => rooms = <<>> /\ connectionRooms = <<>>

\* two connections had joined a room; both have closed, the last one just
\* now, and the room is gone with it
ClosedConnectionsLeaveNoMembershipWitness ==
    /\ last.op = "socketClose" /\ WasMember(RoomR, last.conn)
    /\ Created = Conns /\ \A c \in Conns : Closed(c)
    /\ \E c \in Conns \ {last.conn} : Closed(c)
    /\ rooms = <<>>

\* effect i of the last step is an event, a socket write or a socket end of
\* a connection that had emitted "close" before the step
AfterClose(i) ==
    /\ last.effects[i].kind \in {"emit", "write", "end"}
    /\ IF last.effects[i].conn = last.conn
       THEN last.pre = "CLOSED"
       ELSE state[last.effects[i].conn] = "CLOSED"

\* C37: a connection that has emitted "close" emits no event any more and
\* writes nothing to its socket, whatever socket events and calls come
\* after.
SilentAfterClose ==
    \A i \in DOMAIN last.effects : ~AfterClose(i)

\* C38: with a transport that delivers "drain" after a write it has
\* refused, a connection that is DRAINING is at some later time OPEN,
\* CLOSING or CLOSED.  A process that has ended by an uncaught exception is
\* delivered no "drain" any more, so the behaviours in which it ends are
\* not among those with a fair transport.
DrainingEnds ==
    \A c \in Conns :
        (state[c] = "DRAINING") ~> (state[c] \in {"OPEN", "CLOSING", "CLOSED"} \/ crashed)

\* the "drain" event has brought a DRAINING connection back to OPEN
DrainingEndsWitness ==
    /\ last.op = "drain" /\ last.pre = "DRAINING"
    /\ state[last.conn] = "OPEN" /\ ~needDrain[last.conn]


\* C39: whatever the order of the socket's events and of the calls of send()
\* and close(), transition() never raises its error: no step ends with it
\* uncaught, and send(), whose catch clause would swallow it, reaches
\* DRAINING whenever a write is refused while the connection is OPEN.
TransitionNeverRaises ==
    /\ last.exc # "InvalidTransition"
    /\ last.op = "send" /\ last.pre = "OPEN"
           /\ WriteRefused(last.effects, last.conn)
        => state[last.conn] = "DRAINING"

\* the socket's "error" event delivered after close(): the listener's
\* close() attempts no transition
TransitionNeverRaisesWitness ==
    /\ last.op = "socketError" /\ last.pre = "CLOSING"
    /\ last.exc = "" /\ state[last.conn] = "CLOSING"


\* C40: the ConnectionManager's map holds exactly the connections it has
\* created that have not emitted "close", which are those that are OPEN,
\* DRAINING or CLOSING: closeAll() removes none, reaching CLOSED removes one.
ActiveConnectionsExact ==
    /\ connections = {c \in Created : closeEvents[c] = 0}
    /\ connections = {c \in Conns : state[c] \in {"OPEN", "DRAINING", "CLOSING"}}

\* after stop() a connection that closeAll() has closed is CLOSING and still
\* in the map, while one that was CLOSED before is not
ActiveConnectionsExactWitness ==
    /\ last.op = "stop"
    /\ \E c \in connections : state[c] = "CLOSING"
    /\ \E d \in Created \ connections : state[d] = "CLOSED"

=============================================================================
